---- MODULE Spec2Model ----
(***************************************************************************)
(* Verification model of the symtree text format of uben0/justmessage:     *)
(*   codepoint  - UTF-8 decoding of one scalar value at a time             *)
(*   ascase     - PascalCase -> kebab-case identifier transform            *)
(*   symtree    - the encoder (se.rs) and the decoder (de.rs)              *)
(* Characters are Unicode scalar values (integers); text is a sequence of  *)
(* bytes (integers 0..255), as in the Vec<u8> the encoder writes to and    *)
(* the byte iterator the decoder reads from.                               *)
(***************************************************************************)
EXTENDS Integers, Sequences, FiniteSets, TLC

VARIABLES
    original,       \* codepoint: the string whose bytes are decoded, or Raw
    iter,           \* codepoint: the bytes the byte iterator has not yielded yet
    chars,          \* codepoint: the scalar values collected by the caller's loop
    last,           \* codepoint: the outcome of the latest next_code_point call
    ident,          \* ascase: the identifier given to to_kebab_case
    to_kebab_case,  \* ascase: the ToKebabCase iterator (first, pending, input)
    written,        \* ascase: the characters Display::fmt has written
    from_kebab_case,\* ascase: the FromKebabCase consumer (first, sep, buffer)
    pushes,         \* ascase: the characters pushed to the consumer so far
    typ,            \* symtree: the type T of to_string::<T> and from_str::<T>
    datum,          \* symtree: the value given to to_string, or NoValue
    wire,           \* symtree: the text to_string returned, from_str is given
    trailing,       \* symtree: what follows the value's text in wire
    result,         \* symtree: what from_str or to_writer returned
    serializer,     \* symtree: the Serializer a method of it is called on
    deserializer,   \* symtree: the Deserializer a method of it is called on
    pc,             \* symtree: "value", "text" (encoded) or "done" (decoded)
    persons,        \* fichar: Instance.persons, the Person of each known id
    called          \* fichar: the last call on the Instance and what it returned

cp_vars == <<original, iter, chars, last>>
kc_vars == <<ident, to_kebab_case, written, from_kebab_case, pushes>>
st_vars == <<typ, datum, wire, trailing, result, serializer, deserializer, pc>>
fi_vars == <<persons, called>>
vars == <<cp_vars, kc_vars, st_vars, fi_vars>>

\* value of the variables of a component that a specification does not run
Idle == "idle"
CpIdle == original = Idle /\ iter = Idle /\ chars = Idle /\ last = Idle
KcIdle ==
    /\ ident = Idle /\ to_kebab_case = Idle /\ written = Idle
    /\ from_kebab_case = Idle /\ pushes = Idle
StIdle ==
    /\ typ = Idle /\ datum = Idle /\ wire = Idle
    /\ trailing = Idle /\ result = Idle /\ pc = Idle
    /\ serializer = Idle /\ deserializer = Idle
FiIdle == persons = Idle /\ called = Idle

(***************************************************************************)
(* Bounds of the model                                                     *)
(***************************************************************************)
MaxBytes == 4       \* longest arbitrary byte sequence fed to the decoder
MaxChars == 2       \* longest valid string fed to the decoder
MaxIdent == 3       \* longest identifier given to the case transform
MaxPush == 3        \* most characters pushed to the identifier consumer
MaxLen == 2         \* most elements of a sequence or map that is encoded
MaxDepth == 3       \* deepest indentation level of the Serializer
MaxText == 3        \* longest text the methods of the Deserializer are run on
MaxQuoted == 3      \* most characters after the opening quote of a literal
MaxHex == 4         \* most generated digits of a numeric escape
MaxWrites == 9      \* most writes before the Serializer only closes containers
MaxInstant == 3     \* fichar: the instants of the calls are 0..MaxInstant

(***************************************************************************)
(* Generic helpers                                                         *)
(***************************************************************************)
RECURSIVE SeqsUpTo(_, _)
SeqsUpTo(S, n) ==
    IF n = 0 THEN {<<>>}
    ELSE LET shorter == SeqsUpTo(S, n - 1)
         IN  shorter \cup {Append(s, x) : s \in {t \in shorter : Len(t) = n - 1}, x \in S}

RECURSIVE Flatten(_)
Flatten(ss) == IF ss = <<>> THEN <<>> ELSE Head(ss) \o Flatten(Tail(ss))

Drop(s, n) == SubSeq(s, n + 1, Len(s))

(***************************************************************************)
(* Bit operations on unsigned machine integers                             *)
(***************************************************************************)
RECURSIVE BitAnd(_, _)
BitAnd(a, b) ==
    IF a = 0 \/ b = 0 THEN 0
    ELSE ((a % 2) * (b % 2)) + (2 * BitAnd(a \div 2, b \div 2))

RECURSIVE BitOr(_, _)
BitOr(a, b) ==
    IF a = 0 THEN b
    ELSE IF b = 0 THEN a
    ELSE (IF (a % 2) = 1 \/ (b % 2) = 1 THEN 1 ELSE 0) + (2 * BitOr(a \div 2, b \div 2))

\* !m on u8
Not8(m) == 255 - m

\* code <<= 6 on u32: the six high bits fall off
Shl6(code) == (code % 67108864) * 64

(***************************************************************************)
(* codepoint/src/lib.rs                                                    *)
(***************************************************************************)
MASK_0 == 0
MASK_1 == 128
MASK_2 == 192
MASK_3 == 224
MASK_4 == 240
MASK_5 == 248

\* char::try_from(u32): a scalar value is any code point but a surrogate
IsScalar(u) == (0 <= u /\ u < 55296) \/ (57344 <= u /\ u <= 1114111)

\* Outcomes of one call: Ok(Some(c)), Ok(None), Err(err); rest is the iterator
\* after the call.
CpSome(c, rest) == [tag |-> "some", c |-> c, rest |-> rest]
CpNone(rest) == [tag |-> "none", c |-> 0, rest |-> rest]
CpErr(rest) == [tag |-> "err", c |-> 0, rest |-> rest]

\* Mutant: a continuation byte gives its low five bits only
RECURSIVE TailLoop_NarrowPayload(_, _, _)
TailLoop_NarrowPayload(bs, tail, code) ==
    IF tail = 0 THEN
        IF IsScalar(code) THEN CpSome(code, bs) ELSE CpErr(bs)
    ELSE IF bs = <<>> THEN CpErr(bs)
    ELSE IF BitAnd(Head(bs), MASK_2) # MASK_1 THEN CpErr(Tail(bs))
    ELSE TailLoop_NarrowPayload(Tail(bs), tail - 1,
                  BitOr(Shl6(code), BitAnd(Head(bs), Not8(MASK_3))))

\* Mutant: end of input inside a sequence is reported as a clean end
RECURSIVE TailLoop_CleanEnd(_, _, _)
TailLoop_CleanEnd(bs, tail, code) ==
    IF tail = 0 THEN
        IF IsScalar(code) THEN CpSome(code, bs) ELSE CpErr(bs)
    ELSE IF bs = <<>> THEN CpNone(bs)
    ELSE IF BitAnd(Head(bs), MASK_2) # MASK_1 THEN CpErr(Tail(bs))
    ELSE TailLoop_CleanEnd(Tail(bs), tail - 1,
                  BitOr(Shl6(code), BitAnd(Head(bs), Not8(MASK_2))))

\* for _ in 0..tail { ... } followed by the final conversion
RECURSIVE TailLoop(_, _, _)
TailLoop(bs, tail, code) ==
    IF tail = 0 THEN
        IF IsScalar(code) THEN CpSome(code, bs) ELSE CpErr(bs)
    ELSE IF bs = <<>> THEN CpErr(bs)
    ELSE IF BitAnd(Head(bs), MASK_2) # MASK_1 THEN CpErr(Tail(bs))
    ELSE TailLoop(Tail(bs), tail - 1,
                  BitOr(Shl6(code), BitAnd(Head(bs), Not8(MASK_2))))

next_code_point(bs) ==
    IF bs = <<>> THEN CpNone(bs)
    ELSE LET head == Head(bs)
             rest == Tail(bs)
         IN  IF BitAnd(head, MASK_1) = MASK_0 THEN CpSome(head, rest)
             ELSE IF BitAnd(head, MASK_3) = MASK_2
                  THEN TailLoop(rest, 1, BitAnd(head, Not8(MASK_3)))
             ELSE IF BitAnd(head, MASK_4) = MASK_3
                  THEN TailLoop(rest, 2, BitAnd(head, Not8(MASK_4)))
             ELSE IF BitAnd(head, MASK_5) = MASK_4
                  THEN TailLoop(rest, 3, BitAnd(head, Not8(MASK_5)))
             ELSE CpErr(rest)

\* an item Err(e) of the iterator try_next_code_point reads: the reader failed
IoFailure == -1

\* head? and tail?: the error of the item, not the err argument
CpIo(rest) == [tag |-> "io", c |-> 0, rest |-> rest]

\* Mutant: a failed read of a continuation byte is reported as the err argument
RECURSIVE TryTailLoop_EncodingError(_, _, _)
TryTailLoop_EncodingError(bs, tail, code) ==
    IF tail = 0 THEN
        IF IsScalar(code) THEN CpSome(code, bs) ELSE CpErr(bs)
    ELSE IF bs = <<>> THEN CpErr(bs)
    ELSE IF Head(bs) = IoFailure THEN CpErr(Tail(bs))
    ELSE IF BitAnd(Head(bs), MASK_2) # MASK_1 THEN CpErr(Tail(bs))
    ELSE TryTailLoop_EncodingError(Tail(bs), tail - 1,
                     BitOr(Shl6(code), BitAnd(Head(bs), Not8(MASK_2))))

\* the for loop of try_next_code_point and the final conversion
RECURSIVE TryTailLoop(_, _, _)
TryTailLoop(bs, tail, code) ==
    IF tail = 0 THEN
        IF IsScalar(code) THEN CpSome(code, bs) ELSE CpErr(bs)
    ELSE IF bs = <<>> THEN CpErr(bs)
    ELSE IF Head(bs) = IoFailure THEN CpIo(Tail(bs))
    ELSE IF BitAnd(Head(bs), MASK_2) # MASK_1 THEN CpErr(Tail(bs))
    ELSE TryTailLoop(Tail(bs), tail - 1,
                     BitOr(Shl6(code), BitAnd(Head(bs), Not8(MASK_2))))

try_next_code_point(bs) ==
    IF bs = <<>> THEN CpNone(bs)
    ELSE IF Head(bs) = IoFailure THEN CpIo(Tail(bs))
    ELSE LET head == Head(bs)
             rest == Tail(bs)
         IN  IF BitAnd(head, MASK_1) = MASK_0 THEN CpSome(head, rest)
             ELSE IF BitAnd(head, MASK_3) = MASK_2
                  THEN TryTailLoop(rest, 1, BitAnd(head, Not8(MASK_3)))
             ELSE IF BitAnd(head, MASK_4) = MASK_3
                  THEN TryTailLoop(rest, 2, BitAnd(head, Not8(MASK_4)))
             ELSE IF BitAnd(head, MASK_5) = MASK_4
                  THEN TryTailLoop(rest, 3, BitAnd(head, Not8(MASK_5)))
             ELSE CpErr(rest)

(***************************************************************************)
(* str::bytes(): the UTF-8 encoding of a scalar value and of a string      *)
(***************************************************************************)
Utf8(c) ==
    IF c < 128 THEN <<c>>
    ELSE IF c < 2048 THEN <<192 + (c \div 64), 128 + (c % 64)>>
    ELSE IF c < 65536 THEN
        <<224 + (c \div 4096), 128 + ((c \div 64) % 64), 128 + (c % 64)>>
    ELSE <<240 + (c \div 262144), 128 + ((c \div 4096) % 64),
           128 + ((c \div 64) % 64), 128 + (c % 64)>>

RECURSIVE Utf8Str(_)
Utf8Str(s) == IF s = <<>> THEN <<>> ELSE Utf8(Head(s)) \o Utf8Str(Tail(s))

(***************************************************************************)
(* Inputs of the code-point decoder                                        *)
(***************************************************************************)
\* one byte of every class the decoder tells apart, at both ends of each class
ByteSet == {65, 128, 191, 192, 195, 224, 237, 240, 244, 248}

\* scalar values at both ends of every encoded length, and the ones of the
\* crate's own test (U+10437, 'h', U+E9)
ScalarSet == {0, 104, 127, 128, 233, 2047, 2048, 8364, 55295, 57344, 65535,
              65536, 66615, 1114111}

ValidStrings == SeqsUpTo(ScalarSet, MaxChars)

\* the input is no string known to the caller, only bytes
Raw == <<-1>>

CpInit ==
    /\ \/ \E s \in ValidStrings : original = s /\ iter = Utf8Str(s)
       \/ original = Raw /\ iter \in SeqsUpTo(ByteSet, MaxBytes)
    /\ chars = <<>>
    /\ last = [tag |-> "start", c |-> 0, from |-> <<>>]
    /\ KcIdle /\ StIdle /\ FiIdle

\* One turn of `while let Some(c) = next_code_point(&mut bytes, ())` with the
\* loop body `chars.push(c)`; the loop ends at Ok(None) and at Err.
NextCodePoint ==
    /\ last.tag \in {"start", "some"}
    /\ LET r == next_code_point(iter)
       IN  /\ iter' = r.rest
           /\ last' = [tag |-> r.tag, c |-> r.c, from |-> iter]
           /\ chars' = IF r.tag = "some" THEN Append(chars, r.c) ELSE chars
    /\ UNCHANGED <<original, kc_vars, st_vars, fi_vars>>

CpNext == NextCodePoint

SpecCodepoint == CpInit /\ [][CpNext]_vars

(***************************************************************************)
(* C8  Decoding the UTF-8 bytes of a valid string yields its scalar values *)
(* in order, each call consuming exactly the bytes of one scalar value,    *)
(* and then Ok(None).                                                      *)
(***************************************************************************)
C8_ValidStringDecodes ==
    original # Raw =>
        /\ last.tag # "err"
        /\ Len(chars) <= Len(original)
        /\ chars = SubSeq(original, 1, Len(chars))
        /\ iter = Drop(Utf8Str(original), Len(Utf8Str(chars)))
        /\ last.tag = "some" =>
               /\ last.c = chars[Len(chars)]
               /\ last.from = Utf8(last.c) \o iter
        /\ last.tag = "none" => chars = original /\ iter = <<>>
        /\ (last.tag # "none" /\ chars = original) => ENABLED NextCodePoint

\* the string of the crate's test shape: a 4-byte and a 2-byte scalar value
C8_Witness ==
    /\ original = <<66615, 233>>
    /\ last.tag = "none"
    /\ chars = original

(***************************************************************************)
(* C9  The decoder returns the error, never a character, on a lead byte of *)
(* no class, on a continuation byte whose top bits are not 10 and on input *)
(* that ends inside a sequence; Ok(None) only on input that ends before    *)
(* the lead byte.                                                          *)
(***************************************************************************)
\* continuation bytes the lead byte announces; -1 for a byte of no class
Announced(h) ==
    IF h < 128 THEN 0
    ELSE IF 192 <= h /\ h < 224 THEN 1
    ELSE IF 224 <= h /\ h < 240 THEN 2
    ELSE IF 240 <= h /\ h < 248 THEN 3
    ELSE -1

IsContinuation(b) == 128 <= b /\ b <= 191

C9_ErrorsAndCleanEnd ==
    last.tag # "start" =>
        LET bs == last.from IN
        /\ (last.tag = "none") <=> (bs = <<>>)
        /\ bs # <<>> =>
              LET n == Announced(bs[1]) IN
              /\ n = -1 => last.tag = "err"
              /\ (n > 0 /\ Len(bs) < 1 + n) => last.tag = "err"
              /\ (n > 0 /\ \E i \in 2..(1 + n) : i <= Len(bs) /\ ~IsContinuation(bs[i]))
                    => last.tag = "err"

\* a three-byte sequence cut after its first continuation byte
C9_Witness ==
    /\ last.tag = "err"
    /\ last.from = <<224, 128>>

(***************************************************************************)
(* ascase/src/lib.rs: ToKebabCase                                          *)
(***************************************************************************)
HYPHEN == 45

\* char::is_uppercase on ASCII and Latin-1: A-Z, and U+C0..U+DE but U+D7
is_uppercase(c) ==
    (65 <= c /\ c <= 90) \/ (192 <= c /\ c <= 222 /\ c # 215)

\* char::to_ascii_lowercase: only A-Z change
to_ascii_lowercase(c) == IF 65 <= c /\ c <= 90 THEN c + 32 ELSE c

\* Option<char>
None == <<>>
Some(c) == <<c>>

\* ToKebabCase::new
ToKebabCase_new(s) == [first |-> TRUE, pending |-> None, input |-> s]

\* ToKebabCase::next: the iterator after the call and the item it returns
ToKebabCase_next(it) ==
    IF it.pending # None
    THEN [it |-> [it EXCEPT !.pending = None], item |-> it.pending]
    ELSE IF it.input = <<>> THEN [it |-> it, item |-> None]
    ELSE LET c == Head(it.input)
             sep == is_uppercase(c) /\ ~it.first
             lower == to_ascii_lowercase(c)
             taken == [it EXCEPT !.input = Tail(it.input), !.first = FALSE]
         IN  IF sep
             THEN [it |-> [taken EXCEPT !.pending = Some(lower)], item |-> Some(HYPHEN)]
             ELSE [it |-> taken, item |-> Some(lower)]

(***************************************************************************)
(* ascase/src/lib.rs: FromKebabCase                                        *)
(***************************************************************************)
\* char::to_uppercase on ASCII and Latin-1 (one character may give several)
to_uppercase(c) ==
    IF 97 <= c /\ c <= 122 THEN <<c - 32>>
    ELSE IF 224 <= c /\ c <= 254 /\ c # 247 THEN <<c - 32>>
    ELSE IF c = 223 THEN <<83, 83>>
    ELSE IF c = 181 THEN <<924>>
    ELSE IF c = 255 THEN <<376>>
    ELSE <<c>>

\* mutant: the consumer does not start at the start of a segment
FromKebabCase_new_NotFirst == [first |-> FALSE, sep |-> FALSE, buffer |-> <<>>]
FromKebabCase_new == [first |-> TRUE, sep |-> FALSE, buffer |-> <<>>]

\* mutant: a character other than '-' does not clear first and sep
FromKebabCase_push_KeepFlag(k, c) ==
    IF c = HYPHEN THEN [k EXCEPT !.sep = TRUE, !.first = FALSE]
    ELSE [k EXCEPT !.buffer = IF k.first \/ k.sep THEN k.buffer \o to_uppercase(c)
                              ELSE Append(k.buffer, c)]
FromKebabCase_push(k, c) ==
    IF c = HYPHEN THEN [k EXCEPT !.sep = TRUE, !.first = FALSE]
    ELSE [first |-> FALSE, sep |-> FALSE,
          buffer |-> IF k.first \/ k.sep THEN k.buffer \o to_uppercase(c)
                     ELSE Append(k.buffer, c)]

\* identifier characters: a z A Z 9 _ and the Latin-1 letters U+C9, U+E9
IdentChars == {97, 122, 65, 90, 57, 95, 201, 233}

Idents == SeqsUpTo(IdentChars, MaxIdent)

KcInit ==
    /\ ident \in Idents
    /\ to_kebab_case = ToKebabCase_new(ident)
    /\ written = <<>>
    /\ from_kebab_case = FromKebabCase_new
    /\ pushes = <<>>
    /\ CpIdle /\ StIdle /\ FiIdle

\* One turn of `for c in self.clone() { f.write_char(c)?; }` of Display::fmt
KebabNext ==
    /\ LET r == ToKebabCase_next(to_kebab_case)
       IN  /\ r.item # None
           /\ to_kebab_case' = r.it
           /\ written' = written \o r.item
    /\ UNCHANGED <<ident, from_kebab_case, pushes, cp_vars, st_vars, fi_vars>>

\* One turn of a reader's loop that pushes the written name to the consumer,
\* character by character, once Display::fmt has returned
PushWritten ==
    /\ ToKebabCase_next(to_kebab_case).item = None
    /\ Len(pushes) < Len(written)
    /\ from_kebab_case' = FromKebabCase_push(from_kebab_case, written[Len(pushes) + 1])
    /\ pushes' = Append(pushes, written[Len(pushes) + 1])
    /\ UNCHANGED <<ident, to_kebab_case, written, cp_vars, st_vars, fi_vars>>

KcNext == KebabNext \/ PushWritten

SpecKebab == KcInit /\ [][KcNext]_vars

\* the iterator is exhausted: next() returns None
KebabDone == ToKebabCase_next(to_kebab_case).item = None

(***************************************************************************)
(* C10  to_kebab_case maps an uppercase character that is not the first    *)
(* one to '-' and its lowercase form and every other character to its      *)
(* lowercase form, so that the output holds no uppercase character and     *)
(* does not start with '-'.                                                *)
(***************************************************************************)
\* char::to_lowercase on ASCII and Latin-1
to_lowercase(c) == IF is_uppercase(c) THEN c + 32 ELSE c

RECURSIVE KebabOf(_, _)
KebabOf(s, first) ==
    IF s = <<>> THEN <<>>
    ELSE (IF is_uppercase(Head(s)) /\ ~first
          THEN <<HYPHEN, to_lowercase(Head(s))>>
          ELSE <<to_lowercase(Head(s))>>) \o KebabOf(Tail(s), FALSE)

C10_KebabMapping ==
    KebabDone =>
        /\ written = KebabOf(ident, TRUE)
        /\ \A i \in 1..Len(written) : ~is_uppercase(written[i])
        /\ written # <<>> => written[1] # HYPHEN

(***************************************************************************)
(* The consumer alone: any characters, '-' included, pushed in any order   *)
(***************************************************************************)
\* - a z A 9 and the Latin-1 letters U+E9 and U+DF (uppercase "SS")
PushChars == {45, 97, 122, 65, 57, 233, 223}

FkInit ==
    /\ from_kebab_case = FromKebabCase_new
    /\ pushes = <<>>
    /\ ident = Idle /\ to_kebab_case = Idle /\ written = Idle
    /\ CpIdle /\ StIdle /\ FiIdle

\* FromKebabCase::push(c) by a caller
Push ==
    /\ Len(pushes) < MaxPush
    /\ \E c \in PushChars :
        /\ from_kebab_case' = FromKebabCase_push(from_kebab_case, c)
        /\ pushes' = Append(pushes, c)
    /\ UNCHANGED <<ident, to_kebab_case, written, cp_vars, st_vars, fi_vars>>

FkNext == Push

SpecFromKebab == FkInit /\ [][FkNext]_vars

\* the start-of-segment flag the pushes p leave behind
SegmentStart(p) == p = <<>> \/ p[Len(p)] = HYPHEN

\* what the i-th push of p appends to the buffer
AppendedBy(p, i) ==
    IF p[i] = HYPHEN THEN <<>>
    ELSE IF SegmentStart(SubSeq(p, 1, i - 1)) THEN to_uppercase(p[i])
    ELSE <<p[i]>>

(***************************************************************************)
(* C11  The consumer's start-of-segment flag is true initially and after   *)
(* every '-' pushed and false after any other character; '-' appends       *)
(* nothing, any other character appends its uppercase form when the flag   *)
(* is true and itself otherwise; the buffer is the concatenation of these  *)
(* appends in push order.                                                  *)
(***************************************************************************)
C11_IdentifierConsumer ==
    /\ (from_kebab_case.first \/ from_kebab_case.sep) = SegmentStart(pushes)
    /\ from_kebab_case.buffer =
           Flatten([i \in 1..Len(pushes) |-> AppendedBy(pushes, i)])

\* "-\u{df}a" was pushed: U+DF is uppercased to "SS", 'a' is kept
C11_Witness ==
    /\ pushes = <<HYPHEN, 223, 97>>
    /\ from_kebab_case.buffer = <<83, 83, 97>>
    /\ ~from_kebab_case.first /\ ~from_kebab_case.sep

(***************************************************************************)
(* C12  For every PascalCase identifier (first character uppercase, no     *)
(* '-'), pushing every character of its kebab-case form to the consumer    *)
(* leaves the identifier in the buffer.                                    *)
(***************************************************************************)
IsPascalCase(name) ==
    /\ name # <<>>
    /\ is_uppercase(name[1])
    /\ \A i \in 1..Len(name) : name[i] # HYPHEN

C12_CaseRoundTrip ==
    (KebabDone /\ pushes = written /\ IsPascalCase(ident)) =>
        from_kebab_case.buffer = ident

\* "A\u{c9}a" was written as "a-\u{c9}a" and read back
C12_Witness ==
    /\ ident = <<65, 201, 97>>
    /\ KebabDone /\ pushes = written
    /\ written = <<97, HYPHEN, 201, 97>>
    /\ from_kebab_case.buffer = ident

(***************************************************************************)
(* 64-bit machine integers: four 16-bit limbs, most significant first.     *)
(* A signed integer is a sign and the limbs of its magnitude.              *)
(***************************************************************************)
U64_ZERO == <<0, 0, 0, 0>>
U64_MAX == <<65535, 65535, 65535, 65535>>
I64_MAX == <<32767, 65535, 65535, 65535>>

\* x * m + a on u64 for small m and a: the wrapped product and the carry out
MulAdd(x, m, a) ==
    LET p0 == (x[4] * m) + a
        p1 == (x[3] * m) + (p0 \div 65536)
        p2 == (x[2] * m) + (p1 \div 65536)
        p3 == (x[1] * m) + (p2 \div 65536)
    IN  [carry |-> p3 \div 65536,
         val |-> <<p3 % 65536, p2 % 65536, p1 % 65536, p0 % 65536>>]

\* x / 10 and x % 10 on u64
DivMod10(x) ==
    LET t1 == x[1]
        t2 == ((t1 % 10) * 65536) + x[2]
        t3 == ((t2 % 10) * 65536) + x[3]
        t4 == ((t3 % 10) * 65536) + x[4]
    IN  [quot |-> <<t1 \div 10, t2 \div 10, t3 \div 10, t4 \div 10>>, rem |-> t4 % 10]

\* x <= y on u64
RECURSIVE LimbsLe(_, _)
LimbsLe(x, y) ==
    IF x = <<>> THEN TRUE
    ELSE IF Head(x) # Head(y) THEN Head(x) < Head(y)
    ELSE LimbsLe(Tail(x), Tail(y))

\* a small number as u64
U64(n) == <<0, 0, n \div 65536, n % 65536>>

\* Option<u64>: u64::checked_mul and u64::checked_add with a small operand
u64_checked_mul(x, m) ==
    LET r == MulAdd(x, m, 0) IN IF r.carry # 0 THEN None ELSE Some(r.val)

u64_checked_add(x, a) ==
    LET r == MulAdd(x, 1, a) IN IF r.carry # 0 THEN None ELSE Some(r.val)

\* Option<i64>: i64::checked_mul and i64::checked_add on a non-negative i64
i64_checked_mul(x, m) ==
    LET r == MulAdd(x, m, 0)
    IN  IF r.carry # 0 \/ ~LimbsLe(r.val, I64_MAX) THEN None ELSE Some(r.val)

i64_checked_add(x, a) ==
    LET r == MulAdd(x, 1, a)
    IN  IF r.carry # 0 \/ ~LimbsLe(r.val, I64_MAX) THEN None ELSE Some(r.val)

\* the decimal digits of a u64, as core::fmt writes them
RECURSIVE Digits(_)
Digits(x) ==
    IF x = U64_ZERO THEN <<>>
    ELSE LET r == DivMod10(x) IN Append(Digits(r.quot), 48 + r.rem)

\* write!(.., "{}", v) for an unsigned integer
FmtUnsigned(mag) == IF mag = U64_ZERO THEN <<48>> ELSE Digits(mag)

\* Mutant: "{}" in place of "{:+}"
FmtSigned_NoPlus(neg, mag) == (IF neg THEN <<45>> ELSE <<>>) \o FmtUnsigned(mag)

\* write!(.., "{:+}", v) for a signed integer
FmtSigned(neg, mag) == (IF neg THEN <<45>> ELSE <<43>>) \o FmtUnsigned(mag)

\* the largest magnitude of a type, on the negative side for neg
TypeMax(ty, neg) ==
    CASE ty = "u8" -> U64(255)
      [] ty = "u16" -> U64(65535)
      [] ty = "u32" -> <<0, 0, 65535, 65535>>
      [] ty = "u64" -> U64_MAX
      [] ty = "i8" -> IF neg THEN U64(128) ELSE U64(127)
      [] ty = "i16" -> IF neg THEN U64(32768) ELSE U64(32767)
      [] ty = "i32" -> IF neg THEN <<0, 0, 32768, 0>> ELSE <<0, 0, 32767, 65535>>
      [] ty = "i64" -> IF neg THEN <<32768, 0, 0, 0>> ELSE I64_MAX

SignedTypes == {"i8", "i16", "i32", "i64"}
UnsignedTypes == {"u8", "u16", "u32", "u64"}

(***************************************************************************)
(* Values given to the encoder, as the Serialize implementations of serde  *)
(* present them.  Every value is a record of the same shape:               *)
(*   kind   unit bool int char str none some seq tuple map entry struct    *)
(*          variant tuple_struct tuple_variant struct_variant              *)
(*   ty     the integer type of an int                                     *)
(*   num    bool: <<0 or 1>>; char: <<scalar value>>;                      *)
(*          int: <<1 if negative else 0>> \o limbs of the magnitude        *)
(*   text   str: its characters; struct, variant: its name                 *)
(*   items  some: the value; seq, tuple, struct: elements or fields;       *)
(*          map: entries; entry: key and value                             *)
(***************************************************************************)
Val(kind, ty, num, text, items) ==
    [kind |-> kind, ty |-> ty, num |-> num, text |-> text, items |-> items]

VUnit == Val("unit", "", <<>>, <<>>, <<>>)
VBool(b) == Val("bool", "", <<IF b THEN 1 ELSE 0>>, <<>>, <<>>)
VInt(ty, neg, mag) == Val("int", ty, <<IF neg THEN 1 ELSE 0>> \o mag, <<>>, <<>>)
VChar(c) == Val("char", "", <<c>>, <<>>, <<>>)
VStr(s) == Val("str", "", <<>>, s, <<>>)
VNone == Val("none", "", <<>>, <<>>, <<>>)
VSome(v) == Val("some", "", <<>>, <<>>, <<v>>)
VSeq(es) == Val("seq", "", <<>>, <<>>, es)
VTuple(es) == Val("tuple", "", <<>>, <<>>, es)
VEntry(k, v) == Val("entry", "", <<>>, <<>>, <<k, v>>)
VMap(entries) == Val("map", "", <<>>, <<>>, entries)
VStruct(name, fields) == Val("struct", "", <<>>, name, fields)
VVariant(name) == Val("variant", "", <<>>, name, <<>>)
VTupleStruct(name, fields) == Val("tuple_struct", "", <<>>, name, fields)
VTupleVariant(name, fields) == Val("tuple_variant", "", <<>>, name, fields)
VStructVariant(name, fields) == Val("struct_variant", "", <<>>, name, fields)

IntNeg(v) == v.num[1] = 1
IntMag(v) == Tail(v.num)

(***************************************************************************)
(* symtree/src/se.rs: Serializer                                           *)
(***************************************************************************)
\* enum Sep
Sep_None == "None"
Sep_Line == "Line"
Sep_LineOrSpace == "LineOrSpace"

\* the Serializer of to_string, to_writer (indent None) and to_writer_pretty
\* (indent Some(0)); output is the writes made to the sink, in order, each
\* with what the Serializer does when the sink refuses it
Serializer_new(indent) == [sep |-> Sep_None, indent |-> indent, output |-> <<>>]

\* write!(self.output, ..)?: an error of the sink returns Err(Error::Io)
Write(s, text) ==
    [s EXCEPT !.output = Append(@, [bytes |-> Utf8Str(text), failure |-> "Io"])]

\* write!(self.output, ..).unwrap(): an error of the sink panics
WriteUnwrap(s, text) ==
    [s EXCEPT !.output = Append(@, [bytes |-> Utf8Str(text), failure |-> "panic"])]

\* unimplemented!(): panics, whatever the sink
Unimplemented(s) ==
    [s EXCEPT !.output = Append(@, [bytes |-> <<>>, failure |-> "unimplemented"])]

\* the bytes of the writes
RECURSIVE Bytes(_)
Bytes(writes) == IF writes = <<>> THEN <<>> ELSE Head(writes).bytes \o Bytes(Tail(writes))

\* room of a sink that never fails: the Vec<u8> of to_string
Unfailing == -1

\* The writes reach a sink that takes `room` more bytes and holds `taken`: a
\* write that does not fit fails after the bytes that fit, and what the
\* Serializer does on that failure ends the call; nothing after it runs
RECURSIVE Sink(_, _, _)
Sink(writes, room, taken) ==
    IF writes = <<>> THEN [outcome |-> "Ok", output |-> taken]
    ELSE IF Head(writes).failure = "unimplemented"
    THEN [outcome |-> "panic", output |-> taken]
    ELSE IF room = Unfailing
    THEN Sink(Tail(writes), room, taken \o Head(writes).bytes)
    ELSE IF Len(Head(writes).bytes) <= room
    THEN Sink(Tail(writes), room - Len(Head(writes).bytes), taken \o Head(writes).bytes)
    ELSE [outcome |-> Head(writes).failure,
          output |-> taken \o SubSeq(Head(writes).bytes, 1, room)]

\* mutant: one space per level
RECURSIVE Indentation_OneSpace(_)
Indentation_OneSpace(level) ==
    IF level = 0 THEN <<>> ELSE <<32>> \o Indentation_OneSpace(level - 1)
\* "  " written `level` times
RECURSIVE Indentation(_)
Indentation(level) == IF level = 0 THEN <<>> ELSE <<32, 32>> \o Indentation(level - 1)

\* Serializer::ensure_spacing
ensure_spacing(s) ==
    LET spaced ==
            IF s.sep \in {Sep_LineOrSpace, Sep_Line} /\ s.indent # None
            THEN Write(Write(s, <<10>>), Indentation(s.indent[1]))
            ELSE IF s.sep \in {Sep_Line, Sep_None} THEN s
            ELSE Write(s, <<32>>)
    IN  [spaced EXCEPT !.sep = Sep_None]

\* Serializer::indent
Serializer_indent(s) ==
    IF s.indent # None THEN [s EXCEPT !.indent = Some(@[1] + 1)] ELSE s

\* Serializer::dedent
Serializer_dedent(s) ==
    IF s.indent # None THEN [s EXCEPT !.indent = Some(@[1] - 1)] ELSE s

\* Display of name.as_snake_case(): the ToKebabCase iterator run to its end
RECURSIVE CollectKebab(_)
CollectKebab(it) ==
    LET r == ToKebabCase_next(it)
    IN  IF r.item = None THEN <<>> ELSE r.item \o CollectKebab(r.it)

as_snake_case(name) == CollectKebab(ToKebabCase_new(name))

\* write!(.., "{:x}", c as u32)
RECURSIVE HexDigits(_)
HexDigits(n) ==
    LET d == n % 16
        ch == IF d < 10 THEN 48 + d ELSE 87 + d
    IN  IF n < 16 THEN <<ch>> ELSE Append(HexDigits(n \div 16), ch)

\* char::is_printable on the characters of the model: the C0 controls and
\* DEL are not printable
is_printable(c) == c >= 32 /\ c # 127

\* char::escape_debug_ext as Debug for char and for str call it
escape_debug(c, escape_single_quote, escape_double_quote) ==
    CASE c = 0 -> <<92, 48>>
      [] c = 9 -> <<92, 116>>
      [] c = 13 -> <<92, 114>>
      [] c = 10 -> <<92, 110>>
      [] c = 92 -> <<92, 92>>
      [] c = 34 /\ escape_double_quote -> <<92, 34>>
      [] c = 39 /\ escape_single_quote -> <<92, 39>>
      [] OTHER -> IF is_printable(c) THEN <<c>>
                  ELSE <<92, 117, 123>> \o HexDigits(c) \o <<125>>

\* write!(.., "{:?}", v) for a char
DebugChar(c) == <<39>> \o escape_debug(c, TRUE, FALSE) \o <<39>>

\* write!(.., "{:?}", v) for a str
RECURSIVE DebugStrBody(_)
DebugStrBody(str) ==
    IF str = <<>> THEN <<>>
    ELSE escape_debug(Head(str), FALSE, TRUE) \o DebugStrBody(Tail(str))

DebugStr(str) == <<34>> \o DebugStrBody(str) \o <<34>>

serialize_bool(s, v) ==
    Write(s, IF v THEN <<116, 114, 117, 101>> ELSE <<102, 97, 108, 115, 101>>)

\* serialize_i8, serialize_i16, serialize_i32, serialize_i64
serialize_signed(s, neg, mag) == Write(s, FmtSigned(neg, mag))

\* serialize_u8, serialize_u16, serialize_u32, serialize_u64
serialize_unsigned(s, mag) == Write(s, FmtUnsigned(mag))

serialize_char(s, v) == Write(s, DebugChar(v))

serialize_str(s, v) == Write(s, DebugStr(v))

serialize_none(s) == Write(s, <<40, 110, 111, 110, 101, 41>>)

serialize_unit(s) == Write(s, <<40, 117, 110, 105, 116, 41>>)

serialize_unit_variant(s, variant) ==
    Write(s, <<40>> \o as_snake_case(variant) \o <<41>>)

\* Mutant: the first element is spaced as the following ones
serialize_seq_LineOrSpace(s) ==
    [Serializer_indent(Write(s, <<91>>)) EXCEPT !.sep = Sep_LineOrSpace]

\* serialize_seq; serialize_tuple is the same code
serialize_seq(s) ==
    [Serializer_indent(Write(s, <<91>>)) EXCEPT !.sep = Sep_Line]

serialize_map(s) ==
    [Serializer_indent(Write(s, <<40, 109, 97, 112>>)) EXCEPT !.sep = Sep_LineOrSpace]

\* Mutant: the struct's name is written as declared
serialize_struct_KeepCase(s, name) ==
    [Serializer_indent(Write(s, <<40>> \o name)) EXCEPT !.sep = Sep_LineOrSpace]

serialize_struct(s, name) ==
    [Serializer_indent(Write(s, <<40>> \o as_snake_case(name)))
        EXCEPT !.sep = Sep_LineOrSpace]

\* SerializeSeq::end, SerializeTuple::end
SerializeSeq_end(s) ==
    [Serializer_dedent(Write(s, <<93>>)) EXCEPT !.sep = Sep_LineOrSpace]

\* SerializeMap::end, SerializeStruct::end, SerializeStructVariant::end
SerializeMap_end(s) == Serializer_dedent(Write(s, <<41>>))

SerializeTupleStruct_end(s) == Serializer_dedent(WriteUnwrap(s, <<93>>))

\* serialize_tuple_struct calls serialize_seq
serialize_tuple_struct(s) == serialize_seq(s)

serialize_tuple_variant(s) == Unimplemented(s)

\* mutant: a struct-shaped variant is refused as a tuple-shaped one is
serialize_struct_variant_Unimplemented(s, variant) == Unimplemented(s)
serialize_struct_variant(s, variant) ==
    [Serializer_indent(Write(s, <<40>> \o as_snake_case(variant)))
        EXCEPT !.sep = Sep_LineOrSpace]

RECURSIVE Serialize(_, _)
RECURSIVE SerializeSeq_elements(_, _)
RECURSIVE SerializeTuple_elements(_, _)
RECURSIVE SerializeMap_entries(_, _)
RECURSIVE SerializeStruct_fields(_, _)

serialize_some(s, value) ==
    LET s1 == Write(s, <<40, 115, 111, 109, 101>>)
        s2 == Serializer_indent([s1 EXCEPT !.sep = Sep_LineOrSpace])
        s3 == Serialize(ensure_spacing(s2), value)
        s4 == Serializer_dedent(Write(s3, <<41>>))
    IN  [s4 EXCEPT !.sep = Sep_LineOrSpace]

\* mutant: the element is encoded in compact mode and the mode is left so
SerializeSeq_serialize_element_NoRestore(s, value) ==
    LET s1 == ensure_spacing(s)
        s2 == Serialize([s1 EXCEPT !.indent = None], value)
    IN  [s2 EXCEPT !.sep = Sep_LineOrSpace]

SerializeSeq_serialize_element(s, value) ==
    LET s1 == ensure_spacing(s)
        saved == s1.indent
        s2 == Serialize([s1 EXCEPT !.indent = None], value)
    IN  [s2 EXCEPT !.indent = saved, !.sep = Sep_LineOrSpace]

\* SerializeTuple::serialize_element, SerializeStruct::serialize_field
SerializeTuple_serialize_element(s, value) ==
    [Serialize(ensure_spacing(s), value) EXCEPT !.sep = Sep_LineOrSpace]

SerializeMap_serialize_key(s, key) ==
    LET s1 == Write(ensure_spacing(s), <<91>>)
        saved == s1.indent
        s2 == ensure_spacing([s1 EXCEPT !.sep = Sep_Line, !.indent = None])
        s3 == Serialize(s2, key)
    IN  [s3 EXCEPT !.indent = saved]

SerializeMap_serialize_value(s, value) ==
    LET saved == s.indent
        s1 == ensure_spacing([s EXCEPT !.sep = Sep_LineOrSpace, !.indent = None])
        s2 == Serialize(s1, value)
    IN  Write([s2 EXCEPT !.indent = saved], <<93>>)

SerializeSeq_elements(s, items) ==
    IF items = <<>> THEN s
    ELSE SerializeSeq_elements(SerializeSeq_serialize_element(s, Head(items)), Tail(items))

SerializeTuple_elements(s, items) ==
    IF items = <<>> THEN s
    ELSE SerializeTuple_elements(SerializeTuple_serialize_element(s, Head(items)),
                                 Tail(items))

\* SerializeMap::serialize_entry for every entry
SerializeMap_entries(s, entries) ==
    IF entries = <<>> THEN s
    ELSE LET e == Head(entries)
             s1 == SerializeMap_serialize_key(s, e.items[1])
             s2 == SerializeMap_serialize_value(s1, e.items[2])
         IN  SerializeMap_entries(s2, Tail(entries))

SerializeStruct_fields(s, fields) ==
    IF fields = <<>> THEN s
    ELSE SerializeStruct_fields(SerializeTuple_serialize_element(s, Head(fields)),
                                Tail(fields))

\* value.serialize(serializer): the calls the Serialize implementation of the
\* value's type makes
Serialize(s, v) ==
    CASE v.kind = "unit" -> serialize_unit(s)
      [] v.kind = "bool" -> serialize_bool(s, v.num[1] = 1)
      [] v.kind = "int" ->
            IF v.ty \in SignedTypes THEN serialize_signed(s, IntNeg(v), IntMag(v))
            ELSE serialize_unsigned(s, IntMag(v))
      [] v.kind = "char" -> serialize_char(s, v.num[1])
      [] v.kind = "str" -> serialize_str(s, v.text)
      [] v.kind = "none" -> serialize_none(s)
      [] v.kind = "some" -> serialize_some(s, v.items[1])
      [] v.kind = "seq" ->
            SerializeSeq_end(SerializeSeq_elements(serialize_seq(s), v.items))
      [] v.kind = "tuple" ->
            SerializeSeq_end(SerializeTuple_elements(serialize_seq(s), v.items))
      [] v.kind = "map" ->
            SerializeMap_end(SerializeMap_entries(serialize_map(s), v.items))
      [] v.kind = "struct" ->
            SerializeMap_end(SerializeStruct_fields(serialize_struct(s, v.text), v.items))
      [] v.kind = "variant" -> serialize_unit_variant(s, v.text)
      [] v.kind = "tuple_struct" ->
            SerializeTupleStruct_end(
                SerializeTuple_elements(serialize_tuple_struct(s), v.items))
      [] v.kind = "tuple_variant" -> serialize_tuple_variant(s)
      [] v.kind = "struct_variant" ->
            SerializeMap_end(
                SerializeStruct_fields(serialize_struct_variant(s, v.text), v.items))

\* to_string: compact mode, writing to a Vec<u8>
to_string(v) == Bytes(Serialize(Serializer_new(None), v).output)

\* to_writer: compact mode, writing to a sink with `room` bytes of room
to_writer(v, room) == Sink(Serialize(Serializer_new(None), v).output, room, <<>>)

\* to_writer_pretty: pretty mode, a line feed after the value
to_writer_pretty(v, room) ==
    Sink(Write(Serialize(Serializer_new(Some(0)), v), <<10>>).output, room, <<>>)

(***************************************************************************)
(* symtree/src/error.rs, symtree/src/de.rs: Deserializer                   *)
(***************************************************************************)
\* enum Error; found is also the character of InvalidEscape
Error(kind, one_of, found, row, col) ==
    [kind |-> kind, one_of |-> one_of, found |-> found, row |-> row, col |-> col]

Err(kind) == Error(kind, <<>>, 0, 0, 0)

\* Result<T> of a method of the Deserializer, with the Deserializer after it
Ok(d, v) == [ok |-> TRUE, d |-> d, v |-> v, e |-> Err("")]
Fail(d, e) == [ok |-> FALSE, d |-> d, v |-> <<>>, e |-> e]

\* Reader::next_char of ReaderFromBytes, as the Result<Option<char>> kept in
\* `peeked`
Peeked(r) ==
    CASE r.tag = "some" -> [kind |-> "Some", c |-> r.c, err |-> ""]
      [] r.tag = "none" -> [kind |-> "None", c |-> 0, err |-> ""]
      [] r.tag = "err" -> [kind |-> "Err", c |-> 0, err |-> "InvalidUtf8"]
      [] r.tag = "io" -> [kind |-> "Err", c |-> 0, err |-> "Io"]

\* the two implementations of Reader
ReaderFromBytes == "ReaderFromBytes"
ReaderFromIo == "ReaderFromIo"

\* Reader::next_char
Reader_next_char(reader, input) ==
    IF reader = ReaderFromIo THEN try_next_code_point(input) ELSE next_code_point(input)

\* Deserializer::new
Deserializer_new(reader, bytes) ==
    LET read(r) ==
            [col |-> 0, row |-> 0, peeked |-> Peeked(r), input |-> r.rest, reader |-> reader]
    IN  read(Reader_next_char(reader, bytes))

\* Deserializer::peek_char
peek_char(d) == IF d.peeked.kind = "Some" THEN Some(d.peeked.c) ELSE None

\* mutant: a line feed does not start a new line's count of characters
next_char_NoColReset(d) ==
    LET read(r) ==
            Ok([col |-> d.col + 1,
                row |-> IF d.peeked.c = 10 THEN d.row + 1 ELSE d.row,
                peeked |-> Peeked(r),
                input |-> r.rest,
                reader |-> d.reader], d.peeked.c)
    IN  IF d.peeked.kind = "Err" THEN Fail(d, Err(d.peeked.err))
        ELSE IF d.peeked.kind = "None" THEN Fail(d, Err("Eof"))
        ELSE read(Reader_next_char(d.reader, d.input))

\* Deserializer::next_char
next_char(d) ==
    LET read(r) ==
            Ok([col |-> IF d.peeked.c = 10 THEN 0 ELSE d.col + 1,
                row |-> IF d.peeked.c = 10 THEN d.row + 1 ELSE d.row,
                peeked |-> Peeked(r),
                input |-> r.rest,
                reader |-> d.reader], d.peeked.c)
    IN  IF d.peeked.kind = "Err" THEN Fail(d, Err(d.peeked.err))
        ELSE IF d.peeked.kind = "None" THEN Fail(d, Err("Eof"))
        ELSE read(Reader_next_char(d.reader, d.input))

\* char::is_whitespace
is_whitespace(c) ==
    \/ (9 <= c /\ c <= 13)
    \/ c \in {32, 133, 160, 5760, 8232, 8233, 8239, 8287, 12288}
    \/ (8192 <= c /\ c <= 8202)

\* char::is_alphanumeric on ASCII, Latin-1 and the letter U+10437
is_alphanumeric(c) ==
    \/ (48 <= c /\ c <= 57)
    \/ (65 <= c /\ c <= 90)
    \/ (97 <= c /\ c <= 122)
    \/ c \in {170, 181, 186, 66615}
    \/ (192 <= c /\ c <= 255 /\ c # 215 /\ c # 247)

IsDigit(c) == 48 <= c /\ c <= 57
IsHexDigit(c) == IsDigit(c) \/ (97 <= c /\ c <= 102)
IsIdentChar(c) == is_alphanumeric(c) \/ c = HYPHEN

\* the closures given to next_if
Closure(p, c) ==
    CASE p = "is_whitespace" -> is_whitespace(c)
      [] p = "is_ident" -> IsIdentChar(c)
      [] p = "is_hex" -> IsHexDigit(c)

\* mutant: an error in the look-ahead is taken for the end of the input
next_if_ErrorAsEnd(d, p) ==
    LET taken(r) == IF r.ok THEN Ok(r.d, Some(r.v)) ELSE r IN
    IF d.peeked.kind # "Some" THEN Ok(d, None)
    ELSE IF Closure(p, d.peeked.c) THEN taken(next_char(d))
    ELSE Ok(d, None)

\* Deserializer::next_if
next_if(d, p) ==
    LET taken(r) == IF r.ok THEN Ok(r.d, Some(r.v)) ELSE r IN
    IF d.peeked.kind = "Err" THEN Fail(d, Err(d.peeked.err))
    ELSE IF d.peeked.kind = "None" THEN Ok(d, None)
    ELSE IF Closure(p, d.peeked.c) THEN taken(next_char(d))
    ELSE Ok(d, None)

\* Deserializer::skip_whitespace
RECURSIVE skip_whitespace(_)
skip_whitespace(d) ==
    LET step(r) ==
            IF ~r.ok THEN r
            ELSE IF r.v = None THEN Ok(r.d, <<>>)
            ELSE skip_whitespace(r.d)
    IN  step(next_if(d, "is_whitespace"))

\* the while loop of parse_ident
RECURSIVE parse_ident_loop(_, _)
parse_ident_loop(d, k) ==
    LET step(r) ==
            IF ~r.ok THEN r
            ELSE IF r.v = None THEN Ok(r.d, k)
            ELSE parse_ident_loop(r.d, FromKebabCase_push(k, r.v[1]))
    IN  step(next_if(d, "is_ident"))

\* mutant: the identifier starts at the next character, whitespace or not
parse_ident_Unspaced(d) ==
    LET collected(r) ==
            IF ~r.ok THEN r
            ELSE IF r.v.buffer = <<>> THEN Fail(r.d, Err("ExpectedIdentifier"))
            ELSE Ok(r.d, r.v.buffer)
    IN  collected(parse_ident_loop(d, FromKebabCase_new))

\* Deserializer::parse_ident
parse_ident(d) ==
    LET collected(r) ==
            IF ~r.ok THEN r
            ELSE IF r.v.buffer = <<>> THEN Fail(r.d, Err("ExpectedIdentifier"))
            ELSE Ok(r.d, r.v.buffer)
        spaced(w) ==
            IF ~w.ok THEN w ELSE collected(parse_ident_loop(w.d, FromKebabCase_new))
    IN  spaced(skip_whitespace(d))

\* mutant: the digits a..f count from 0
hex_push_LetterFromZero(acc, c) ==
    LET added(m) ==
            IF m = None THEN None
            ELSE u64_checked_add(m[1], IF IsDigit(c) THEN c - 48 ELSE c - 97)
    IN  added(u64_checked_mul(acc, 16))

\* acc * 16 + digit, checked
hex_push(acc, c) ==
    LET added(m) ==
            IF m = None THEN None
            ELSE u64_checked_add(m[1], IF IsDigit(c) THEN c - 48 ELSE (c - 97) + 10)
    IN  added(u64_checked_mul(acc, 16))

\* Deserializer::parse_hex
RECURSIVE parse_hex_loop(_, _)
parse_hex_loop(d, acc) ==
    LET pushed(r, a) ==
            IF a = None THEN Fail(r.d, Err("NumberOverflow"))
            ELSE parse_hex_loop(r.d, a[1])
        step(r) ==
            IF ~r.ok THEN r
            ELSE IF r.v = None THEN Ok(r.d, acc)
            ELSE pushed(r, hex_push(acc, r.v[1]))
    IN  step(next_if(d, "is_hex"))

parse_hex(d) == parse_hex_loop(d, U64_ZERO)

\* Error::ExpectedChar { one_of: ('0'..='9').collect(), .. }
DigitChars == <<48, 49, 50, 51, 52, 53, 54, 55, 56, 57>>

\* the digit loop of parse_u64
RECURSIVE parse_u64_loop(_, _)
parse_u64_loop(d, acc) ==
    LET added(n, a) ==
            IF a = None THEN Fail(n.d, Err("NumberOverflow"))
            ELSE parse_u64_loop(n.d, a[1])
        taken(m, n) == added(n, u64_checked_add(m[1], n.v - 48))
        multiplied(m) ==
            IF m = None THEN Fail(d, Err("NumberOverflow"))
            ELSE taken(m, next_char(d))
    IN  IF peek_char(d) = None \/ ~IsDigit(d.peeked.c) THEN Ok(d, acc)
        ELSE multiplied(u64_checked_mul(acc, 10))

\* Deserializer::parse_u64
parse_u64(d) ==
    LET spaced(w) ==
            IF ~w.ok THEN w
            ELSE IF peek_char(w.d) = None THEN Fail(w.d, Err("Eof"))
            ELSE IF ~IsDigit(w.d.peeked.c)
                 THEN Fail(w.d, Error("ExpectedChar", DigitChars, w.d.peeked.c,
                                      w.d.row, w.d.col))
            ELSE parse_u64_loop(w.d, U64_ZERO)
    IN  spaced(skip_whitespace(d))

\* Deserializer::expects_either
expects_either(d, lhs, rhs) ==
    LET taken(w, n) ==
            IF ~n.ok THEN n
            ELSE IF n.v = lhs \/ n.v = rhs THEN n
            ELSE Fail(n.d, Error("ExpectedChar", <<lhs, rhs>>, n.v, w.d.row, w.d.col))
        spaced(w) == IF ~w.ok THEN w ELSE taken(w, next_char(w.d))
    IN  spaced(skip_whitespace(d))

\* the for loop of expects_imm; row and col are those of the literal's start
RECURSIVE expects_imm_loop(_, _, _, _)
expects_imm_loop(d, literal, row, col) ==
    LET taken(n) ==
            IF ~n.ok THEN n
            ELSE IF n.v # Head(literal)
                 THEN Fail(n.d, Error("ExpectedChar", <<Head(literal)>>, n.v, row, col))
            ELSE expects_imm_loop(n.d, Tail(literal), row, col)
    IN  IF literal = <<>> THEN Ok(d, <<>>) ELSE taken(next_char(d))

\* Deserializer::expects_imm
expects_imm(d, literal) == expects_imm_loop(d, literal, d.row, d.col)

\* Deserializer::expects
expects(d, literal) ==
    LET spaced(w) == IF ~w.ok THEN w ELSE expects_imm(w.d, literal)
    IN  spaced(skip_whitespace(d))

\* the digit loop of parse_i64
RECURSIVE parse_i64_loop(_, _)
parse_i64_loop(d, acc) ==
    LET added(n, a) ==
            IF a = None THEN Fail(n.d, Err("NumberOverflow"))
            ELSE parse_i64_loop(n.d, a[1])
        taken(m, n) == added(n, i64_checked_add(m[1], n.v - 48))
        multiplied(m) ==
            IF m = None THEN Fail(d, Err("NumberOverflow"))
            ELSE taken(m, next_char(d))
    IN  IF peek_char(d) = None \/ ~IsDigit(d.peeked.c) THEN Ok(d, acc)
        ELSE multiplied(i64_checked_mul(acc, 10))

\* Deserializer::parse_i64; the value is <<1 if negative else 0>> \o magnitude
parse_i64(d) ==
    LET accumulated(sg, r) ==
            IF ~r.ok THEN r
            ELSE Ok(r.d, <<IF sg.v = 45 /\ r.v # U64_ZERO THEN 1 ELSE 0>> \o r.v)
        signed(sg) ==
            IF ~sg.ok THEN sg
            ELSE IF peek_char(sg.d) = None THEN Fail(sg.d, Err("Eof"))
            ELSE IF ~IsDigit(sg.d.peeked.c)
                 THEN Fail(sg.d, Error("ExpectedChar", DigitChars, sg.d.peeked.c,
                                       sg.d.row, sg.d.col))
            ELSE accumulated(sg, parse_i64_loop(sg.d, U64_ZERO))
        spaced(w) == IF ~w.ok THEN w ELSE signed(expects_either(w.d, 43, 45))
    IN  spaced(skip_whitespace(d))

\* Mutant: the narrowing keeps the low bits (`as` in place of try_into)
parse_nat_Truncating(d, ty) ==
    LET narrowed(r) ==
            IF ~r.ok THEN r
            ELSE Ok(r.d, <<0>> \o <<BitAnd(r.v[1], TypeMax(ty, FALSE)[1]),
                                    BitAnd(r.v[2], TypeMax(ty, FALSE)[2]),
                                    BitAnd(r.v[3], TypeMax(ty, FALSE)[3]),
                                    BitAnd(r.v[4], TypeMax(ty, FALSE)[4])>>)
    IN  narrowed(parse_u64(d))

\* Deserializer::parse_nat::<T>
parse_nat(d, ty) ==
    LET narrowed(r) ==
            IF ~r.ok THEN r
            ELSE IF ~LimbsLe(r.v, TypeMax(ty, FALSE)) THEN Fail(r.d, Err("NumberOverflow"))
            ELSE Ok(r.d, <<0>> \o r.v)
    IN  narrowed(parse_u64(d))

\* Deserializer::parse_int::<T>
parse_int(d, ty) ==
    LET narrowed(r) ==
            IF ~r.ok THEN r
            ELSE IF ~LimbsLe(Tail(r.v), TypeMax(ty, r.v[1] = 1))
                 THEN Fail(r.d, Err("NumberOverflow"))
            ELSE r
    IN  narrowed(parse_i64(d))

\* mutant: a character that starts no escape stands for itself
parse_escape_Lenient(d) ==
    LET closed(c, u) == IF ~c.ok THEN c ELSE Ok(c.d, u)
        scalar(h, u) ==
            IF ~IsScalar(u) THEN Fail(h.d, Err("NumberOverflow"))
            ELSE closed(expects_imm(h.d, <<125>>), u)
        hex(h) ==
            IF ~h.ok THEN h
            ELSE IF h.v[1] # 0 \/ h.v[2] # 0 THEN Fail(h.d, Err("NumberOverflow"))
            ELSE IF h.v[3] > 16 THEN Fail(h.d, Err("NumberOverflow"))
            ELSE scalar(h, (h.v[3] * 65536) + h.v[4])
        taken(n) ==
            IF ~n.ok THEN n
            ELSE IF n.v = 110 THEN Ok(n.d, 10)
            ELSE IF n.v = 123 THEN hex(parse_hex(n.d))
            ELSE n
    IN  taken(next_char(d))

\* Deserializer::parse_escape
parse_escape(d) ==
    LET closed(c, u) == IF ~c.ok THEN c ELSE Ok(c.d, u)
        scalar(h, u) ==
            IF ~IsScalar(u) THEN Fail(h.d, Err("NumberOverflow"))
            ELSE closed(expects_imm(h.d, <<125>>), u)
        hex(h) ==
            IF ~h.ok THEN h
            ELSE IF h.v[1] # 0 \/ h.v[2] # 0 THEN Fail(h.d, Err("NumberOverflow"))
            ELSE IF h.v[3] > 16 THEN Fail(h.d, Err("NumberOverflow"))
            ELSE scalar(h, (h.v[3] * 65536) + h.v[4])
        taken(n) ==
            IF ~n.ok THEN n
            ELSE IF n.v \in {39, 34, 92} THEN n
            ELSE IF n.v = 110 THEN Ok(n.d, 10)
            ELSE IF n.v = 123 THEN hex(parse_hex(n.d))
            ELSE Fail(n.d, Error("InvalidEscape", <<>>, n.v, 0, 0))
    IN  taken(next_char(d))

(***************************************************************************)
(* Types a value is decoded as, as the Deserialize implementations of      *)
(* serde drive the Deserializer: kind is unit bool int char str option seq *)
(* tuple map struct enum; ty the integer type; text the struct's name;     *)
(* items the types of the parts (option, seq: one; map: key and value;     *)
(* tuple, struct: one per field) or the variants' names as str values.     *)
(***************************************************************************)
Ty(kind, ty, text, items) == [kind |-> kind, ty |-> ty, text |-> text, items |-> items]

RECURSIVE Deserialize(_, _)
RECURSIVE visit_seq_vec(_, _, _)
RECURSIVE visit_seq_fields(_, _, _)
RECURSIVE visit_map(_, _, _, _)
RECURSIVE deserialize_str_loop(_, _)

\* the result r of a step, with the value v in place of the step's own
Giving(r, v) == IF ~r.ok THEN r ELSE Ok(r.d, v)

deserialize_bool(d) ==
    LET first(r) ==
            IF ~r.ok THEN r
            ELSE IF r.v = 116 THEN Giving(expects_imm(r.d, <<114, 117, 101>>), VBool(TRUE))
            ELSE Giving(expects_imm(r.d, <<97, 108, 115, 101>>), VBool(FALSE))
    IN  first(expects_either(d, 116, 102))

\* deserialize_i8 .. deserialize_u64
deserialize_int(d, ty) ==
    LET parsed(r) == IF ~r.ok THEN r ELSE Ok(r.d, Val("int", ty, r.v, <<>>, <<>>))
    IN  parsed(IF ty \in SignedTypes THEN parse_int(d, ty) ELSE parse_nat(d, ty))

deserialize_char(d) ==
    LET read(c) == IF ~c.ok THEN c ELSE Giving(expects_imm(c.d, <<39>>), VChar(c.v))
        taken(n) ==
            IF ~n.ok THEN n ELSE read(IF n.v = 92 THEN parse_escape(n.d) ELSE n)
        opened(q) == IF ~q.ok THEN q ELSE taken(next_char(q.d))
    IN  opened(expects(d, <<39>>))

deserialize_str_loop(d, string) ==
    LET escaped(c) ==
            IF ~c.ok THEN c ELSE deserialize_str_loop(c.d, Append(string, c.v))
        taken(n) ==
            IF ~n.ok THEN n
            ELSE IF n.v = 34 THEN Ok(n.d, VStr(string))
            ELSE IF n.v = 92 THEN escaped(parse_escape(n.d))
            ELSE deserialize_str_loop(n.d, Append(string, n.v))
    IN  taken(next_char(d))

deserialize_str(d) ==
    LET opened(q) == IF ~q.ok THEN q ELSE deserialize_str_loop(q.d, <<>>)
    IN  opened(expects(d, <<34>>))

deserialize_option(d, T) ==
    LET closing(value) ==
            IF ~value.ok THEN value ELSE Giving(expects(value.d, <<41>>), value.v)
        inner(v) == IF ~v.ok THEN v ELSE Ok(v.d, VSome(v.v))
        some(l) == IF ~l.ok THEN l ELSE inner(Deserialize(l.d, T))
        first(r) ==
            IF ~r.ok THEN r
            ELSE IF r.v = 115 THEN closing(some(expects_imm(r.d, <<111, 109, 101>>)))
            ELSE closing(Giving(expects_imm(r.d, <<111, 110, 101>>), VNone))
        opened(o) == IF ~o.ok THEN o ELSE first(expects_either(o.d, 115, 110))
    IN  opened(expects(d, <<40>>))

deserialize_unit(d) ==
    LET named(u) == IF ~u.ok THEN u ELSE Giving(expects(u.d, <<41>>), VUnit)
        opened(o) == IF ~o.ok THEN o ELSE named(expects(o.d, <<117, 110, 105, 116>>))
    IN  opened(expects(d, <<40>>))

\* SeqAccess::next_element_seed
next_element_seed(d, T) ==
    LET element(v) == IF ~v.ok THEN v ELSE Ok(v.d, Some(v.v))
        spaced(w) ==
            IF ~w.ok THEN w
            ELSE IF peek_char(w.d) \in {Some(41), Some(93)} THEN Ok(w.d, None)
            ELSE element(Deserialize(w.d, T))
    IN  spaced(skip_whitespace(d))

\* Visitor::visit_seq of Vec<T>: elements until next_element gives None
visit_seq_vec(d, T, acc) ==
    LET step(r) ==
            IF ~r.ok THEN r
            ELSE IF r.v = None THEN Ok(r.d, acc)
            ELSE visit_seq_vec(r.d, T, Append(acc, r.v[1]))
    IN  step(next_element_seed(d, T))

\* Visitor::visit_seq of a tuple and of a derived struct: one element per
\* field, a missing one is Error::invalid_length
visit_seq_fields(d, Ts, acc) ==
    LET step(r) ==
            IF ~r.ok THEN r
            ELSE IF r.v = None THEN Fail(r.d, Err("Message"))
            ELSE visit_seq_fields(r.d, Tail(Ts), Append(acc, r.v[1]))
    IN  IF Ts = <<>> THEN Ok(d, acc) ELSE step(next_element_seed(d, Head(Ts)))

\* MapAccess::next_key_seed
next_key_seed(d, K) ==
    LET key(k) == IF ~k.ok THEN k ELSE Ok(k.d, Some(k.v))
        opened(o) == IF ~o.ok THEN o ELSE key(Deserialize(o.d, K))
        spaced(w) ==
            IF ~w.ok THEN w
            ELSE IF peek_char(w.d) = Some(41) THEN Ok(w.d, None)
            ELSE opened(expects(w.d, <<91>>))
    IN  spaced(skip_whitespace(d))

\* MapAccess::next_value_seed
next_value_seed(d, V) ==
    LET value(v) == IF ~v.ok THEN v ELSE Giving(expects(v.d, <<93>>), v.v)
        spaced(w) == IF ~w.ok THEN w ELSE value(Deserialize(w.d, V))
    IN  spaced(skip_whitespace(d))

\* Visitor::visit_map of a map: entries until next_key gives None
visit_map(d, K, V, acc) ==
    LET value(k, v) ==
            IF ~v.ok THEN v
            ELSE visit_map(v.d, K, V, Append(acc, VEntry(k.v[1], v.v)))
        key(k) ==
            IF ~k.ok THEN k
            ELSE IF k.v = None THEN Ok(k.d, acc)
            ELSE value(k, next_value_seed(k.d, V))
    IN  key(next_key_seed(d, K))

\* mutant: a sequence is closed by ']' or by ')'
deserialize_seq_EitherCloser(d, T) ==
    LET visited(value) ==
            IF ~value.ok THEN value
            ELSE Giving(expects_either(value.d, 93, 41), VSeq(value.v))
        opened(o) == IF ~o.ok THEN o ELSE visited(visit_seq_vec(o.d, T, <<>>))
    IN  opened(expects(d, <<91>>))

\* deserialize_seq visited as a Vec<T>
deserialize_seq(d, T) ==
    LET visited(value) ==
            IF ~value.ok THEN value
            ELSE Giving(expects(value.d, <<93>>), VSeq(value.v))
        opened(o) == IF ~o.ok THEN o ELSE visited(visit_seq_vec(o.d, T, <<>>))
    IN  opened(expects(d, <<91>>))

\* deserialize_tuple: deserialize_seq visited as a tuple
deserialize_tuple(d, Ts) ==
    LET visited(value) ==
            IF ~value.ok THEN value
            ELSE Giving(expects(value.d, <<93>>), VTuple(value.v))
        opened(o) == IF ~o.ok THEN o ELSE visited(visit_seq_fields(o.d, Ts, <<>>))
    IN  opened(expects(d, <<91>>))

deserialize_map(d, K, V) ==
    LET visited(value) ==
            IF ~value.ok THEN value
            ELSE Giving(expects(value.d, <<41>>), VMap(value.v))
        named(m) == IF ~m.ok THEN m ELSE visited(visit_map(m.d, K, V, <<>>))
        opened(o) == IF ~o.ok THEN o ELSE named(expects(o.d, <<109, 97, 112>>))
    IN  opened(expects(d, <<40>>))

deserialize_struct(d, name, Ts) ==
    LET visited(value) ==
            IF ~value.ok THEN value
            ELSE Giving(expects(value.d, <<41>>), VStruct(name, value.v))
        named(n) == IF ~n.ok THEN n ELSE visited(visit_seq_fields(n.d, Ts, <<>>))
        opened(o) == IF ~o.ok THEN o ELSE named(expects(o.d, as_snake_case(name)))
    IN  opened(expects(d, <<40>>))

\* deserialize_identifier visited by the derived variant identifier: a name
\* that is no variant is Error::unknown_variant
deserialize_identifier(d, variants) ==
    LET parsed(i) ==
            IF ~i.ok THEN i
            ELSE IF \E n \in 1..Len(variants) : variants[n] = i.v
                 THEN Ok(i.d, VVariant(i.v))
            ELSE Fail(i.d, Err("Message"))
    IN  parsed(parse_ident(d))

\* deserialize_enum visited by a derived enum of unit variants
deserialize_enum(d, variants) ==
    LET visited(value) ==
            IF ~value.ok THEN value ELSE Giving(expects(value.d, <<41>>), value.v)
        opened(o) == IF ~o.ok THEN o ELSE visited(deserialize_identifier(o.d, variants))
    IN  opened(expects(d, <<40>>))

\* T::deserialize(deserializer)
Deserialize(d, T) ==
    CASE T.kind = "unit" -> deserialize_unit(d)
      [] T.kind = "bool" -> deserialize_bool(d)
      [] T.kind = "int" -> deserialize_int(d, T.ty)
      [] T.kind = "char" -> deserialize_char(d)
      [] T.kind = "str" -> deserialize_str(d)
      [] T.kind = "option" -> deserialize_option(d, T.items[1])
      [] T.kind = "seq" -> deserialize_seq(d, T.items[1])
      [] T.kind = "tuple" -> deserialize_tuple(d, T.items)
      [] T.kind = "map" -> deserialize_map(d, T.items[1], T.items[2])
      [] T.kind = "struct" -> deserialize_struct(d, T.text, T.items)
      [] T.kind = "enum" -> deserialize_enum(d, T.items)

\* deserializer.skip_whitespace()?; if deserializer.peeked?.is_none() { Ok(t) }
\* else { Err(Error::TrailingCharacters) }
finish(t) ==
    LET spaced(w) ==
            IF ~w.ok THEN w
            ELSE IF w.d.peeked.kind = "Err" THEN Fail(w.d, Err(w.d.peeked.err))
            ELSE IF w.d.peeked.kind = "None" THEN Ok(w.d, t.v)
            ELSE Fail(w.d, Err("TrailingCharacters"))
    IN  IF ~t.ok THEN t ELSE spaced(skip_whitespace(t.d))

\* Mutant: what follows the value is not looked at
from_str_NoTrailingCheck(T, bytes) ==
    Deserialize(Deserializer_new(ReaderFromBytes, bytes), T)

\* from_str::<T>
from_str(T, bytes) ==
    finish(Deserialize(Deserializer_new(ReaderFromBytes, bytes), T))

\* from_reader::<R, T>, the reader handing out the bytes of the text
from_reader(T, bytes) ==
    finish(Deserialize(Deserializer_new(ReaderFromIo, bytes), T))

(***************************************************************************)
(* The types and values the encoder and the decoder are run on             *)
(***************************************************************************)
TUnit == Ty("unit", "", <<>>, <<>>)
TBool == Ty("bool", "", <<>>, <<>>)
TInt(ty) == Ty("int", ty, <<>>, <<>>)
TChar == Ty("char", "", <<>>, <<>>)
TStr == Ty("str", "", <<>>, <<>>)
TOption(T) == Ty("option", "", <<>>, <<T>>)
TSeq(T) == Ty("seq", "", <<>>, <<T>>)
TTuple(Ts) == Ty("tuple", "", <<>>, Ts)
TMap(K, V) == Ty("map", "", <<>>, <<K, V>>)
TStruct(name, Ts) == Ty("struct", "", name, Ts)
TEnum(variants) == Ty("enum", "", <<>>, variants)

\* struct Point { x: i8, y: i8 }
TPoint == TStruct(<<80, 111, 105, 110, 116>>, <<TInt("i8"), TInt("i8")>>)
\* struct HttpReq { url: String, retries: u8, tags: Vec<String> }
THttpReq == TStruct(<<72, 116, 116, 112, 82, 101, 113>>, <<TStr, TInt("u8"), TSeq(TStr)>>)
\* struct Empty {}
TEmpty == TStruct(<<69, 109, 112, 116, 121>>, <<>>)
\* enum Color { Red, DarkBlue }
TColor == TEnum(<<<<82, 101, 100>>, <<68, 97, 114, 107, 66, 108, 117, 101>>>>)
\* struct Pixel { at: Option<Point>, color: Color }
TPixel == TStruct(<<80, 105, 120, 101, 108>>, <<TOption(TPoint), TColor>>)

ScalarTypes ==
    {TUnit, TBool, TChar, TStr} \cup {TInt(ty) : ty \in SignedTypes \cup UnsignedTypes}

CompositeTypes ==
    {TOption(TStr), TOption(TInt("i8")), TOption(TOption(TBool)), TOption(TSeq(TInt("u8"))),
     TOption(TUnit),
     TSeq(TInt("u8")), TSeq(TBool), TSeq(TChar), TSeq(TStr), TSeq(TSeq(TInt("u8"))),
     TSeq(TOption(TInt("i8"))), TSeq(TTuple(<<TBool, TChar>>)),
     TSeq(TMap(TChar, TBool)), TSeq(TUnit), TSeq(TColor), TSeq(TPoint),
     TTuple(<<TBool, TChar>>), TTuple(<<TInt("u8"), TInt("u8"), TInt("u8")>>),
     TTuple(<<TInt("i8"), TSeq(TInt("u8")), TStr>>),
     TMap(TChar, TBool), TMap(TStr, TSeq(TInt("u8"))), TMap(TInt("u8"), TOption(TInt("i8"))),
     TMap(TBool, TMap(TChar, TBool)), TMap(TBool, TPoint), TMap(TChar, TColor),
     TMap(TSeq(TInt("u8")), TUnit),
     TPoint, THttpReq, TEmpty, TPixel, TColor}

Types == ScalarTypes \cup CompositeTypes

\* the integers of a type: both ends of its range, zero and its neighbours
IntsOf(ty) ==
    IF ty \in SignedTypes
    THEN {VInt(ty, TRUE, TypeMax(ty, TRUE)), VInt(ty, TRUE, U64(1)), VInt(ty, FALSE, U64_ZERO),
          VInt(ty, FALSE, U64(4)), VInt(ty, FALSE, TypeMax(ty, FALSE))}
    ELSE {VInt(ty, FALSE, U64_ZERO), VInt(ty, FALSE, U64(3)), VInt(ty, FALSE, TypeMax(ty, FALSE))}

\* c b a ' " \ newline tab return NUL U+1 DEL space { } e-acute euro U+10437
CharsTop == {99, 98, 97, 39, 34, 92, 10, 9, 13, 0, 1, 127, 32, 123, 125, 233, 8364, 66615}

StrsTop ==
    {<<>>, <<104, 101, 108, 108, 111>>, <<97, 34, 32, 93, 39>>, <<92, 110>>, <<10>>, <<9>>, <<233, 8364>>, <<32>>,
     <<93, 41>>, <<104, 10, 105>>}

\* sets of sequences: one element of each set, in order
RECURSIVE Product(_)
Product(sets) ==
    IF sets = <<>> THEN {<<>>}
    ELSE {<<x>> \o rest : x \in Head(sets), rest \in Product(Tail(sets))}

DistinctKeys(entries) ==
    \A i, j \in 1..Len(entries) : i # j => entries[i].items[1] # entries[j].items[1]

\* the values of type T that the model runs; parts of a composite (depth > 0)
\* are drawn from fewer values than a value on its own, and a sequence or a
\* map inside a composite has at most one element
RECURSIVE ValuesOf(_, _)
ValuesOf(T, depth) ==
    LET len == IF depth = 0 THEN MaxLen ELSE 1
        part(i) == ValuesOf(T.items[i], depth + 1)
    IN  CASE T.kind = "unit" -> {VUnit}
          [] T.kind = "bool" -> {VBool(TRUE), VBool(FALSE)}
          [] T.kind = "int" ->
                IF depth = 0 THEN IntsOf(T.ty)
                ELSE IF T.ty \in SignedTypes
                     THEN {VInt(T.ty, TRUE, TypeMax(T.ty, TRUE)), VInt(T.ty, FALSE, U64(4))}
                     ELSE {VInt(T.ty, FALSE, U64_ZERO), VInt(T.ty, FALSE, U64(3))}
          [] T.kind = "char" ->
                IF depth = 0 THEN {VChar(c) : c \in CharsTop} ELSE {VChar(97), VChar(98), VChar(99), VChar(39)}
          [] T.kind = "str" ->
                IF depth = 0 THEN {VStr(s) : s \in StrsTop}
                ELSE {VStr(<<104, 101, 108, 108, 111>>), VStr(<<97, 34, 32, 93, 39>>)}
          [] T.kind = "option" -> {VNone} \cup {VSome(v) : v \in part(1)}
          [] T.kind = "seq" -> {VSeq(es) : es \in SeqsUpTo(part(1), len)}
          [] T.kind = "tuple" ->
                {VTuple(es) : es \in Product([i \in 1..Len(T.items) |-> part(i)])}
          [] T.kind = "map" ->
                {VMap(es) : es \in {m \in SeqsUpTo({VEntry(k, v) : k \in part(1), v \in part(2)},
                                                    len) : DistinctKeys(m)}}
          [] T.kind = "struct" ->
                {VStruct(T.text, es) : es \in Product([i \in 1..Len(T.items) |-> part(i)])}
          [] T.kind = "enum" -> {VVariant(T.items[i]) : i \in 1..Len(T.items)}

(***************************************************************************)
(* Encoding and decoding: to_string(&value) and from_str::<T>(&s)          *)
(***************************************************************************)
\* no value is known for a text that was not encoded from one
NoValue == Val("absent", "", <<>>, <<>>, <<>>)

NoResult == [ok |-> FALSE, v |-> NoValue, e |-> Err("")]
ResultOk(v) == [ok |-> TRUE, v |-> v, e |-> Err("")]
ResultErr(e) == [ok |-> FALSE, v |-> NoValue, e |-> e]

\* what may follow a value in the text given to from_str: whitespace (ASCII,
\* U+A0, U+3000) and text that is no whitespace
Trailings == {<<32>>, <<10>>, <<32, 9, 13, 10>>, <<160, 12288>>, <<32, 103, 97, 114, 98, 97, 103, 101>>, <<120>>, <<32, 43, 52>>, <<41>>, <<93>>, <<45>>, <<34>>}

\* the digits of the integer literals given to from_str: both sides of every
\* type's range, and one digit more than each type's maximum
LiteralDigits ==
    {<<48>>,
     <<55>>,
     <<48, 48, 55>>,
     <<49, 50, 55>>,
     <<49, 50, 56>>,
     <<49, 50, 57>>,
     <<50, 53, 53>>,
     <<50, 53, 54>>,
     <<49, 48, 48, 48>>,
     <<51, 50, 55, 54, 55>>,
     <<51, 50, 55, 54, 56>>,
     <<51, 50, 55, 54, 57>>,
     <<54, 53, 53, 51, 53>>,
     <<54, 53, 53, 51, 54>>,
     <<49, 48, 48, 48, 48, 48>>,
     <<50, 49, 52, 55, 52, 56, 51, 54, 52, 55>>,
     <<50, 49, 52, 55, 52, 56, 51, 54, 52, 56>>,
     <<50, 49, 52, 55, 52, 56, 51, 54, 52, 57>>,
     <<52, 50, 57, 52, 57, 54, 55, 50, 57, 53>>,
     <<52, 50, 57, 52, 57, 54, 55, 50, 57, 54>>,
     <<49, 48, 48, 48, 48, 48, 48, 48, 48, 48, 48>>,
     <<57, 50, 50, 51, 51, 55, 50, 48, 51, 54, 56, 53, 52, 55, 55, 53, 56, 48, 55>>,
     <<57, 50, 50, 51, 51, 55, 50, 48, 51, 54, 56, 53, 52, 55, 55, 53, 56, 48, 56>>,
     <<57, 50, 50, 51, 51, 55, 50, 48, 51, 54, 56, 53, 52, 55, 55, 53, 56, 48, 57>>,
     <<49, 48, 48, 48, 48, 48, 48, 48, 48, 48, 48, 48, 48, 48, 48, 48, 48, 48, 48, 48>>,
     <<49, 56, 52, 52, 54, 55, 52, 52, 48, 55, 51, 55, 48, 57, 53, 53, 49, 54, 49, 53>>,
     <<49, 56, 52, 52, 54, 55, 52, 52, 48, 55, 51, 55, 48, 57, 53, 53, 49, 54, 49, 54>>,
     <<57, 57, 57, 57, 57, 57, 57, 57, 57, 57, 57, 57, 57, 57, 57, 57, 57, 57, 57, 57>>,
     <<49, 56, 52, 52, 54, 55, 52, 52, 48, 55, 51, 55, 48, 57, 53, 53, 49, 54, 49, 53, 48>>}

\* nothing, '+', '-'
LiteralSigns == {<<>>, <<43>>, <<45>>}

\* the whitespace in front of an integer literal: none, " ", "\n\t"
Leadings == {<<>>, <<32>>, <<10, 9>>}

\* what follows the opening quote of a character or string literal given
\* to from_str: ' " \ n q {
QuotedChars == {39, 34, 92, 110, 113, 123}

StInit ==
    /\ \/ /\ typ \in Types
          /\ datum \in ValuesOf(typ, 0)
          /\ pc = "value" /\ wire = <<>> /\ trailing = <<>>
       \/ /\ typ \in Types
          /\ datum \in ValuesOf(typ, 1)
          /\ pc = "text"
          /\ trailing \in {Utf8Str(tr) : tr \in Trailings}
          /\ wire = to_string(datum) \o trailing
       \/ /\ typ \in {TInt(ty) : ty \in SignedTypes \cup UnsignedTypes}
          /\ datum = NoValue
          /\ pc = "text"
          /\ trailing \in {<<>>} \cup {Utf8Str(tr) : tr \in Trailings}
          /\ \E leading \in Leadings, sign \in LiteralSigns, digits \in LiteralDigits :
                /\ leading = <<>> \/ trailing = <<>>
                /\ wire = leading \o sign \o digits \o trailing
       \/ /\ typ \in {TChar, TStr}
          /\ datum = NoValue
          /\ pc = "text"
          /\ trailing = <<>>
          /\ \E quoted \in SeqsUpTo(QuotedChars, MaxQuoted) :
                wire = <<IF typ = TChar THEN 39 ELSE 34>> \o quoted
    /\ result = NoResult /\ serializer = Idle /\ deserializer = Idle
    /\ CpIdle /\ KcIdle /\ FiIdle

\* let wire = to_string(&value).unwrap();
Encode ==
    /\ pc = "value"
    /\ wire' = to_string(datum)
    /\ pc' = "text"
    /\ UNCHANGED <<typ, datum, trailing, result, serializer, deserializer, cp_vars, kc_vars, fi_vars>>

\* let result = from_str::<T>(&wire); or from_reader::<_, T>(wire.as_bytes());
Decode ==
    /\ pc = "text"
    /\ \E entry \in {"from_str", "from_reader"} :
          LET returned(r) == IF r.ok THEN ResultOk(r.v) ELSE ResultErr(r.e)
          IN  result' = returned(IF entry = "from_str" THEN from_str(typ, wire)
                                 ELSE from_reader(typ, wire))
    /\ pc' = "done"
    /\ UNCHANGED <<typ, datum, wire, trailing, serializer, deserializer, cp_vars, kc_vars, fi_vars>>

StNext == Encode \/ Decode

SpecSymtree == StInit /\ [][StNext]_vars

(***************************************************************************)
(* to_writer and to_writer_pretty on a sink that fails once it is full     *)
(***************************************************************************)
\* struct Pair(bool, char); struct Line(Pair, Pair);
Pairs == {VTupleStruct(<<80, 97, 105, 114>>, <<VBool(b), VChar(c)>>) :
            b \in BOOLEAN, c \in {97, 233}}
Lines == {VTupleStruct(<<76, 105, 110, 101>>, <<p, q>>) :
            p \in Pairs, q \in {VTupleStruct(<<80, 97, 105, 114>>, <<VBool(TRUE), VChar(97)>>)}}

\* enum Shape { MoveTo { x: i8, y: i8 }, Rgb(u8, u8), Nothing {} }
StructVariants ==
    {VStructVariant(<<77, 111, 118, 101, 84, 111>>, <<x, y>>) :
        x \in ValuesOf(TInt("i8"), 1), y \in {VInt("i8", FALSE, U64(4))}}
    \cup {VStructVariant(<<78, 111, 116, 104, 105, 110, 103>>, <<>>)}
TupleVariants ==
    {VTupleVariant(<<82, 103, 98>>, <<VInt("u8", FALSE, U64(3)), g>>) :
        g \in ValuesOf(TInt("u8"), 1)}

\* the types whose values are written
WriterTypes ==
    {TUnit, TBool, TInt("i8"), TInt("u64"), TChar, TStr, TOption(TStr), TSeq(TBool),
     TSeq(TSeq(TInt("u8"))), TTuple(<<TBool, TChar>>), TMap(TChar, TBool), TPoint,
     TEmpty, TColor, TPixel}

\* the values the encoder supports and those it is said not to support
SupportedValues ==
    UNION {ValuesOf(T, IF T.kind = "seq" THEN 0 ELSE 1) : T \in WriterTypes}
        \cup Pairs \cup Lines \cup {VSeq(<<p>>) : p \in Pairs}
WriterValues == SupportedValues \cup StructVariants \cup TupleVariants

\* every number of bytes the sink may take before it fails, and no failure
Rooms(v) ==
    {Unfailing} \cup 0..Len(to_writer_pretty(v, Unfailing).output)

WrInit ==
    /\ datum \in WriterValues
    /\ typ = Idle
    /\ pc = "value" /\ wire = <<>> /\ trailing = <<>>
    /\ result = NoResult /\ serializer = Idle /\ deserializer = Idle
    /\ CpIdle /\ KcIdle /\ FiIdle

\* let result = to_writer(&value, sink); wire is what the sink holds
ToWriter ==
    /\ pc = "value"
    /\ \E room \in Rooms(datum) :
          LET returned(w) ==
                /\ wire' = w.output
                /\ result' = [entry |-> "to_writer", room |-> room, outcome |-> w.outcome]
          IN  returned(to_writer(datum, room))
    /\ pc' = "written"
    /\ UNCHANGED <<typ, datum, trailing, serializer, deserializer, cp_vars, kc_vars, fi_vars>>

\* let result = to_writer_pretty(&value, sink);
ToWriterPretty ==
    /\ pc = "value"
    /\ \E room \in Rooms(datum) :
          LET returned(w) ==
                /\ wire' = w.output
                /\ result' = [entry |-> "to_writer_pretty", room |-> room,
                              outcome |-> w.outcome]
          IN  returned(to_writer_pretty(datum, room))
    /\ pc' = "written"
    /\ UNCHANGED <<typ, datum, trailing, serializer, deserializer, cp_vars, kc_vars, fi_vars>>

WrNext == ToWriter \/ ToWriterPretty

SpecWriter == WrInit /\ [][WrNext]_vars

\* what the entry point writes to a sink that never fails
WrittenInFull ==
    IF result.entry = "to_writer" THEN to_writer(datum, Unfailing)
    ELSE to_writer_pretty(datum, Unfailing)

\* the sink failed during the call: the text did not fit
SinkFailed ==
    result.room # Unfailing /\ result.room < Len(WrittenInFull.output)

(***************************************************************************)
(* Serializer::ensure_spacing on every separator, mode and depth           *)
(***************************************************************************)
\* the Serializers ensure_spacing is called on: with any separator pending,
\* in compact mode or at a depth of pretty mode, after an opening was written
Openings ==
    {<<91>>, <<40, 109, 97, 112>>, <<40, 115, 111, 109, 101>>, <<91, 91>>, <<40, 112>>,
     <<91, 116, 114, 117, 101>>}
Serializers ==
    {[Write(Serializer_new(indent), opening) EXCEPT !.sep = sep] :
        sep \in {Sep_None, Sep_Line, Sep_LineOrSpace},
        indent \in {None} \cup {Some(level) : level \in 0..MaxDepth},
        opening \in Openings}

SpInit ==
    /\ serializer \in Serializers
    /\ pc = "ensure_spacing"
    /\ typ = Idle /\ datum = Idle /\ wire = Idle /\ trailing = Idle /\ result = Idle
    /\ deserializer = Idle
    /\ CpIdle /\ KcIdle /\ FiIdle

\* self.ensure_spacing()
EnsureSpacing ==
    /\ pc = "ensure_spacing"
    /\ serializer' = ensure_spacing(serializer)
    /\ pc' = "spaced"
    /\ UNCHANGED <<typ, datum, wire, trailing, result, deserializer, cp_vars, kc_vars, fi_vars>>

SpNext == EnsureSpacing

SpecSpacing == SpInit /\ [][SpNext]_vars

\* n spaces
Spaces(n) == [i \in 1..n |-> 32]

\* what ensure_spacing is to write for a separator in a mode
Spacing(sep, indent) ==
    IF sep = Sep_None THEN <<>>
    ELSE IF indent # None THEN <<10>> \o Spaces(2 * indent[1])
    ELSE IF sep = Sep_LineOrSpace THEN <<32>>
    ELSE <<>>

(***************************************************************************)
(* C15  ensure_spacing writes, in pretty mode, a line feed and two spaces  *)
(* per depth level for Line and LineOrSpace; in compact mode one space for *)
(* LineOrSpace and nothing for Line; nothing for None in either mode; and  *)
(* it leaves the pending separator None.                                   *)
(***************************************************************************)
C15_EnsureSpacing ==
    [][pc = "ensure_spacing" =>
          /\ Bytes(serializer'.output) =
                Bytes(serializer.output) \o Spacing(serializer.sep, serializer.indent)
          /\ serializer'.sep = Sep_None
          /\ serializer'.indent = serializer.indent]_vars

\* LineOrSpace at depth 2 of pretty mode: a line feed and four spaces
C15_Witness ==
    /\ pc = "spaced"
    /\ serializer.indent = Some(2)
    /\ Bytes(serializer.output) = <<91, 10, 32, 32, 32, 32>>
    /\ serializer.sep = Sep_None

(***************************************************************************)
(* The methods of the Deserializer, called in any order on a text          *)
(***************************************************************************)
\* line feed, r u e, 5, +
TextChars == {10, 114, 117, 101, 53, 43}

\* the texts read: every short text of TextChars, texts with characters of
\* two and three bytes and a space, and bytes that are no UTF-8
Texts ==
    {Utf8Str(t) : t \in SeqsUpTo(TextChars, MaxText)}
        \cup {Utf8Str(<<233, 10, 8364, 53>>), Utf8Str(<<233, 114, 233, 101>>),
              Utf8Str(<<32, 10, 32, 117>>), <<114, 10, 255, 114>>, <<195>>}

\* the literals expects is called with: "rue", "r", "+5"
Literals == {<<114, 117, 101>>, <<114>>, <<43, 53>>}

RdInit ==
    /\ wire \in Texts
    /\ \E reader \in {ReaderFromBytes, ReaderFromIo} :
          deserializer = Deserializer_new(reader, wire)
    /\ result = [op |-> "new", ok |-> TRUE, e |-> Err(""), refused |-> FALSE,
                 row |-> 0, col |-> 0]
    /\ pc = "reading"
    /\ typ = Idle /\ datum = Idle /\ trailing = Idle /\ serializer = Idle
    /\ CpIdle /\ KcIdle /\ FiIdle

\* the Deserializer and the Result a method leaves, with the position it
\* was called at; refused: it is a consume that failed or was rejected
Returned(op, r, refused) ==
    /\ deserializer' = r.d
    /\ result' = [op |-> op, ok |-> r.ok, e |-> r.e, refused |-> refused,
                  row |-> deserializer.row, col |-> deserializer.col]
    /\ UNCHANGED <<typ, datum, wire, trailing, serializer, pc, cp_vars, kc_vars, fi_vars>>

NextChar ==
    /\ pc = "reading"
    /\ LET call(r) == Returned("next_char", r, ~r.ok)
       IN  call(next_char(deserializer))

NextIf ==
    /\ pc = "reading"
    /\ \E p \in {"is_whitespace", "is_ident", "is_hex"} :
          LET call(r) == Returned("next_if", r, r.v = None)
          IN  call(next_if(deserializer, p))

ExpectsEither ==
    /\ pc = "reading"
    /\ \E pair \in {<<43, 45>>, <<114, 117>>} :
          Returned("expects_either", expects_either(deserializer, pair[1], pair[2]), FALSE)

Expects ==
    /\ pc = "reading"
    /\ \E literal \in Literals : Returned("expects", expects(deserializer, literal), FALSE)

ExpectsImm ==
    /\ pc = "reading"
    /\ \E literal \in Literals :
          Returned("expects_imm", expects_imm(deserializer, literal), FALSE)

ParseU64 == pc = "reading" /\ Returned("parse_u64", parse_u64(deserializer), FALSE)

ParseI64 == pc = "reading" /\ Returned("parse_i64", parse_i64(deserializer), FALSE)

RdNext ==
    NextChar \/ NextIf \/ ExpectsEither \/ Expects \/ ExpectsImm \/ ParseU64 \/ ParseI64

SpecReader == RdInit /\ [][RdNext]_vars

\* the characters of a text, up to its end or to bytes that are no character
RECURSIVE Chars(_)
Chars(bytes) ==
    LET read(r) == IF r.tag = "some" THEN <<r.c>> \o Chars(r.rest) ELSE <<>>
    IN  read(next_code_point(bytes))

\* the characters the Deserializer has not consumed: the one it peeked and
\* those of its input
Unconsumed ==
    IF deserializer.peeked.kind = "Some" THEN 1 + Len(Chars(deserializer.input)) ELSE 0

\* the characters the Deserializer has consumed
Consumed == SubSeq(Chars(wire), 1, Len(Chars(wire)) - Unconsumed)

\* the line feeds among characters
RECURSIVE Newlines(_)
Newlines(cs) ==
    IF cs = <<>> THEN 0 ELSE (IF Head(cs) = 10 THEN 1 ELSE 0) + Newlines(Tail(cs))

\* the characters after the last line feed
RECURSIVE SinceNewline(_)
SinceNewline(cs) ==
    IF cs = <<>> \/ cs[Len(cs)] = 10 THEN 0
    ELSE 1 + SinceNewline(SubSeq(cs, 1, Len(cs) - 1))

(***************************************************************************)
(* C16  row is the number of line feeds consumed and col the number of     *)
(* characters consumed since the last of them (or since the start); a      *)
(* consume that fails and a next_if that rejects change neither.           *)
(***************************************************************************)
C16_Position ==
    /\ deserializer.row = Newlines(Consumed)
    /\ deserializer.col = SinceNewline(Consumed)
    /\ result.refused =>
          deserializer.row = result.row /\ deserializer.col = result.col

\* "\u{e9}\n\u{20ac}5" was consumed up to '5': the position is 1:1
C16_Witness ==
    /\ wire = Utf8Str(<<233, 10, 8364, 53>>)
    /\ Consumed = <<233, 10, 8364>>
    /\ deserializer.row = 1 /\ deserializer.col = 1
    /\ result.op = "next_if" /\ result.refused

\* the position of the i-th character of a text
RowOf(cs, i) == Newlines(SubSeq(cs, 1, i - 1))
ColOf(cs, i) == SinceNewline(SubSeq(cs, 1, i - 1))

(***************************************************************************)
(* C17  Every ExpectedChar error reports in row and col the position of    *)
(* the character it reports in found, and in one_of characters that found  *)
(* is none of: also when a literal of several characters mismatches after  *)
(* its first character, and when the digits of a number are missing.       *)
(***************************************************************************)
C17_ExpectedCharPosition ==
    (~result.ok /\ result.e.kind = "ExpectedChar") =>
        /\ \E i \in 1..Len(Chars(wire)) :
              /\ Chars(wire)[i] = result.e.found
              /\ RowOf(Chars(wire), i) = result.e.row
              /\ ColOf(Chars(wire), i) = result.e.col
        /\ result.e.one_of # <<>>
        /\ \A k \in 1..Len(result.e.one_of) : result.e.one_of[k] # result.e.found

(***************************************************************************)
(* C13  When the sink fails on a write, the closing bracket of a tuple     *)
(* struct included, to_writer and to_writer_pretty return Err(Io) without  *)
(* panicking and write nothing more; on a sink that never fails, encoding  *)
(* a supported value returns Ok.                                           *)
(***************************************************************************)
C13_SinkFailure ==
    (pc = "written" /\ datum \in SupportedValues) =>
        /\ SinkFailed =>
              /\ result.outcome = "Io"
              /\ wire = SubSeq(WrittenInFull.output, 1, result.room)
        /\ result.room = Unfailing => result.outcome = "Ok"

(***************************************************************************)
(* C14  The encoder emits no text for a tuple-shaped or a struct-shaped    *)
(* enum variant and never completes successfully on one.                   *)
(***************************************************************************)
C14_VariantsUnsupported ==
    (pc = "written" /\ datum.kind \in {"tuple_variant", "struct_variant"}) =>
        /\ wire = <<>>
        /\ result.outcome # "Ok"

\* the text of a struct-shaped variant of scalar fields: "(", the name, every
\* field after a space (compact) or a line feed and two spaces (pretty), ")"
StructVariantText(v, pretty) ==
    <<40>> \o as_snake_case(v.text)
        \o Flatten([i \in 1..Len(v.items) |->
                (IF pretty THEN <<10, 32, 32>> ELSE <<32>>) \o to_string(v.items[i])])
        \o <<41>> \o (IF pretty THEN <<10>> ELSE <<>>)

(***************************************************************************)
(* C14 as amended: a tuple-shaped variant is not encoded, the call panics  *)
(* before any text is written; a struct-shaped variant is encoded as a     *)
(* struct is, and the call returns Ok when the sink does not fail.         *)
(***************************************************************************)
C14_VariantShapes ==
    pc = "written" =>
        /\ datum.kind = "tuple_variant" =>
              wire = <<>> /\ result.outcome = "panic"
        /\ (datum.kind = "struct_variant" /\ ~SinkFailed) =>
              /\ result.outcome = "Ok"
              /\ wire = StructVariantText(datum, result.entry = "to_writer_pretty")

\* Shape::MoveTo { x: 4, y: 4 } was written as "(move-to +4 +4)"
C14_Witness ==
    /\ pc = "written"
    /\ datum = VStructVariant(<<77, 111, 118, 101, 84, 111>>,
                              <<VInt("i8", FALSE, U64(4)), VInt("i8", FALSE, U64(4))>>)
    /\ result.entry = "to_writer" /\ result.room = Unfailing
    /\ result.outcome = "Ok"
    /\ wire = <<40, 109, 111, 118, 101, 45, 116, 111, 32, 43, 52, 32, 43, 52, 41>>

\* the text of the value alone
Literal == SubSeq(wire, 1, Len(wire) - Len(trailing))

\* the value was encoded by to_string and nothing follows it
WasEncoded == pc \in {"text", "done"} /\ datum # NoValue /\ trailing = <<>>

\* the text was decoded
Decoded == pc = "done"

\* the texts of `parts`, each one preceded by `before`
RECURSIVE EachAfter(_, _)
EachAfter(before, parts) ==
    IF parts = <<>> THEN <<>>
    ELSE before \o Head(parts) \o EachAfter(before, Tail(parts))

\* the texts of `parts` with one space between two of them
SpaceSeparated(parts) ==
    IF parts = <<>> THEN <<>> ELSE Head(parts) \o EachAfter(<<32>>, Tail(parts))

AllDigits(text) == \A i \in 1..Len(text) : IsDigit(text[i])

\* the number a sequence of decimal digits writes, as a u64
RECURSIVE DecimalValue(_, _)
DecimalValue(digits, acc) ==
    IF digits = <<>> THEN acc
    ELSE DecimalValue(Tail(digits), MulAdd(acc, 10, Head(digits) - 48).val)

\* decimal digits without the zeros in front
RECURSIVE StripZeros(_)
StripZeros(digits) ==
    IF Len(digits) > 1 /\ Head(digits) = 48 THEN StripZeros(Tail(digits)) ELSE digits

(***************************************************************************)
(* C1  Round trip: from_str(to_string(v)) returns Ok(v) for every value v  *)
(* built from unit, bool, integers, characters, strings, options,          *)
(* sequences, tuples, maps, structs and unit enum variants.                *)
(***************************************************************************)
C1_RoundTrip == (Decoded /\ WasEncoded) => result = ResultOk(datum)

(***************************************************************************)
(* C2  A signed integer is encoded as '+' or '-' followed by its decimal   *)
(* digits, zero and the positive ones with '+'; an unsigned integer as its *)
(* decimal digits and no sign.                                             *)
(***************************************************************************)
C2_IntegerSign ==
    (WasEncoded /\ datum.kind = "int") =>
        LET digits == IF datum.ty \in SignedTypes THEN Tail(wire) ELSE wire IN
        /\ datum.ty \in SignedTypes => wire[1] = (IF IntNeg(datum) THEN 45 ELSE 43)
        /\ digits # <<>>
        /\ AllDigits(digits)
        /\ StripZeros(digits) = digits
        /\ DecimalValue(digits, U64_ZERO) = IntMag(datum)

C2_Witness ==
    /\ WasEncoded
    /\ datum = VInt("i32", FALSE, U64(4))
    /\ wire = <<43, 52>>

\* to_string of every part of a composite value
EncodedParts(parts) == [i \in 1..Len(parts) |-> to_string(parts[i])]

(***************************************************************************)
(* C3  to_string encodes a sequence or a tuple as '[', the encodings of    *)
(* its elements with exactly one space between two of them, and ']', with  *)
(* no space after '[' or before ']'; nested sequences too, every element   *)
(* being encoded as it is on its own.                                      *)
(***************************************************************************)
C3_SequenceLayout ==
    (WasEncoded /\ datum.kind \in {"seq", "tuple"}) =>
        wire = <<91>> \o SpaceSeparated(EncodedParts(datum.items)) \o <<93>>

\* (true, 'c') is encoded as [true 'c']
C3_Witness ==
    /\ WasEncoded
    /\ datum = VTuple(<<VBool(TRUE), VChar(99)>>)
    /\ wire = <<91, 116, 114, 117, 101, 32, 39, 99, 39, 93>>

\* "[" key " " value "]" of every entry
EncodedEntries(entries) ==
    [i \in 1..Len(entries) |->
        <<91>> \o to_string(entries[i].items[1]) \o <<32>>
               \o to_string(entries[i].items[2]) \o <<93>>]

(***************************************************************************)
(* C4  to_string encodes a map as "(map", then for each entry in order one *)
(* space and "[" key " " value "]", then ")": two entries are separated by *)
(* exactly one space whatever the values are.                              *)
(***************************************************************************)
C4_MapLayout ==
    (WasEncoded /\ datum.kind = "map") =>
        wire = <<40, 109, 97, 112>> \o EachAfter(<<32>>, EncodedEntries(datum.items)) \o <<41>>

(***************************************************************************)
(* C5  to_string encodes None as "(none)", Some(v) as "(some " encode(v)   *)
(* ")", unit as "(unit)", a struct as "(" kebab(Name), one space and the   *)
(* encoding of each field in declaration order, and ")", and a unit enum   *)
(* variant V as "(" kebab(V) ")".                                          *)
(***************************************************************************)
C5_ParenthesisedForms ==
    WasEncoded =>
        /\ datum.kind = "none" => wire = <<40, 110, 111, 110, 101, 41>>
        /\ datum.kind = "some" =>
              wire = <<40, 115, 111, 109, 101, 32>> \o to_string(datum.items[1]) \o <<41>>
        /\ datum.kind = "unit" => wire = <<40, 117, 110, 105, 116, 41>>
        /\ datum.kind = "struct" =>
              wire = <<40>> \o Utf8Str(KebabOf(datum.text, TRUE))
                            \o EachAfter(<<32>>, EncodedParts(datum.items)) \o <<41>>
        /\ datum.kind = "variant" =>
              wire = <<40>> \o Utf8Str(KebabOf(datum.text, TRUE)) \o <<41>>

\* HttpReq { url: "hello", retries: 3, tags: vec![] } is encoded as
\* (http-req "hello" 3 [])
C5_Witness ==
    /\ WasEncoded
    /\ datum = VStruct(<<72, 116, 116, 112, 82, 101, 113>>,
                       <<VStr(<<104, 101, 108, 108, 111>>), VInt("u8", FALSE, U64(3)),
                         VSeq(<<>>)>>)
    /\ wire = <<40, 104, 116, 116, 112, 45, 114, 101, 113, 32, 34, 104, 101, 108, 108, 111,
                34, 32, 51, 32, 91, 93, 41>>

\* the text after the value is one of Trailings that holds whitespace only
\* (White_Space: ASCII blanks, U+A0, U+3000)
WhitespaceOnly(text) ==
    \/ text = <<>>
    \/ \E tr \in Trailings :
          /\ Utf8Str(tr) = text
          /\ \A i \in 1..Len(tr) : tr[i] \in {32, 9, 10, 13, 160, 12288}

\* the value's text on its own is read as a value, up to its last character
ValueAlone == Deserialize(Deserializer_new(ReaderFromBytes, Literal), typ)

(***************************************************************************)
(* C6  from_str and from_reader return Ok(v) only if nothing but           *)
(* whitespace follows the value; a character that is no whitespace after   *)
(* the value gives Err(TrailingCharacters); whitespace after the value     *)
(* never gives an error.                                                   *)
(***************************************************************************)
C6_TrailingCharacters ==
    (Decoded /\ ValueAlone.ok /\ ValueAlone.d.peeked.kind = "None") =>
        IF WhitespaceOnly(trailing)
        THEN result = ResultOk(ValueAlone.v)
        ELSE result = ResultErr(Err("TrailingCharacters"))

\* "+4 garbage" is refused
C6_Witness ==
    /\ Decoded
    /\ typ = TInt("i32")
    /\ wire = <<43, 52, 32, 103, 97, 114, 98, 97, 103, 101>>
    /\ result = ResultErr(Err("TrailingCharacters"))

\* the decimal digits of the largest magnitude of a type
MaxDigits(ty, neg) ==
    CASE ty = "u8" -> <<50, 53, 53>>
      [] ty = "u16" -> <<54, 53, 53, 51, 53>>
      [] ty = "u32" -> <<52, 50, 57, 52, 57, 54, 55, 50, 57, 53>>
      [] ty = "u64" -> <<49, 56, 52, 52, 54, 55, 52, 52, 48, 55, 51, 55, 48, 57, 53, 53, 49, 54, 49, 53>>
      [] ty = "i8" ->
            IF neg THEN <<49, 50, 56>>
            ELSE <<49, 50, 55>>
      [] ty = "i16" ->
            IF neg THEN <<51, 50, 55, 54, 56>>
            ELSE <<51, 50, 55, 54, 55>>
      [] ty = "i32" ->
            IF neg THEN <<50, 49, 52, 55, 52, 56, 51, 54, 52, 56>>
            ELSE <<50, 49, 52, 55, 52, 56, 51, 54, 52, 55>>
      [] ty = "i64" ->
            IF neg THEN <<57, 50, 50, 51, 51, 55, 50, 48, 51, 54, 56, 53, 52, 55, 55, 53, 56, 48, 56>>
            ELSE <<57, 50, 50, 51, 51, 55, 50, 48, 51, 54, 56, 53, 52, 55, 55, 53, 56, 48, 55>>

\* a <= b for two numbers written in decimal digits without zeros in front
RECURSIVE DigitsLe(_, _)
DigitsLe(a, b) ==
    IF Len(a) # Len(b) THEN Len(a) < Len(b)
    ELSE IF a = <<>> THEN TRUE
    ELSE IF Head(a) # Head(b) THEN Head(a) < Head(b)
    ELSE DigitsLe(Tail(a), Tail(b))

\* the text is an integer literal of the type: a sign and digits for a signed
\* type, digits for an unsigned one
LiteralSigned == Len(Literal) >= 2 /\ Literal[1] \in {43, 45} /\ AllDigits(Tail(Literal))
LiteralUnsigned == Literal # <<>> /\ AllDigits(Literal)
IsLiteral ==
    /\ datum = NoValue
    /\ IF typ.ty \in SignedTypes THEN LiteralSigned ELSE LiteralUnsigned

LiteralNegative == typ.ty \in SignedTypes /\ Literal[1] = 45
LiteralDigitsOf == StripZeros(IF typ.ty \in SignedTypes THEN Tail(Literal) ELSE Literal)

\* the number the literal writes is outside the range of the type
OutOfRange == ~DigitsLe(LiteralDigitsOf, MaxDigits(typ.ty, LiteralNegative))

(***************************************************************************)
(* C7  Decoding an integer literal whose value is outside the range of the *)
(* target type returns Err(NumberOverflow), and a value that is returned   *)
(* is the number the literal writes, never a wrapped or truncated one.     *)
(***************************************************************************)
C7_NumberOverflow ==
    (Decoded /\ IsLiteral) =>
        /\ OutOfRange => result = ResultErr(Err("NumberOverflow"))
        /\ result.ok =>
              /\ ~OutOfRange
              /\ result.v.kind = "int" /\ result.v.ty = typ.ty
              /\ FmtUnsigned(IntMag(result.v)) = LiteralDigitsOf
              /\ IntNeg(result.v) = (LiteralNegative /\ LiteralDigitsOf # <<48>>)

\* "256" read as u8: the accumulator holds 256 and the narrowing fails
C7_Witness ==
    /\ Decoded
    /\ typ = TInt("u8")
    /\ wire = <<50, 53, 54>>
    /\ result = ResultErr(Err("NumberOverflow"))

\* the text without the blanks in front of it
RECURSIVE SkipBlanks(_)
SkipBlanks(text) ==
    IF text # <<>> /\ Head(text) \in {32, 9, 10} THEN SkipBlanks(Tail(text)) ELSE text

\* the integer literal given to from_str, the whitespace around it left out
Number == SkipBlanks(Literal)
NumberSign == IF Number # <<>> /\ Number[1] \in {43, 45} THEN <<Number[1]>> ELSE <<>>
NumberDigits == SubSeq(Number, Len(NumberSign) + 1, Len(Number))

\* the literal is one of the type, of a number in the range of the type
NumberInRange ==
    /\ NumberDigits # <<>> /\ AllDigits(NumberDigits)
    /\ (typ.ty \in SignedTypes) = (NumberSign # <<>>)
    /\ DigitsLe(StripZeros(NumberDigits), MaxDigits(typ.ty, NumberSign = <<45>>))

(***************************************************************************)
(* C18  Decoding a signed integer skips whitespace, requires '+' or '-'    *)
(* (a literal starting with a digit gives ExpectedChar naming '+' and '-') *)
(* and at least one digit, and accepts every literal in the range of the   *)
(* type, i64::MIN included, with its exact value; an unsigned integer is   *)
(* decoded the same way without the sign.                                  *)
(***************************************************************************)
C18_IntegerLiterals ==
    (Decoded /\ datum = NoValue /\ WhitespaceOnly(trailing)) =>
        /\ (typ.ty \in SignedTypes /\ Number # <<>> /\ IsDigit(Number[1])) =>
              /\ ~result.ok
              /\ result.e.kind = "ExpectedChar"
              /\ result.e.one_of = <<43, 45>>
              /\ result.e.found = Number[1]
        /\ NumberDigits = <<>> => ~result.ok
        /\ NumberInRange =>
              /\ result.ok
              /\ result.v.kind = "int" /\ result.v.ty = typ.ty
              /\ FmtUnsigned(IntMag(result.v)) = StripZeros(NumberDigits)
              /\ IntNeg(result.v) =
                    (NumberSign = <<45>> /\ StripZeros(NumberDigits) # <<48>>)

(***************************************************************************)
(* C19  Every escape sequence the encoder writes for a character or a      *)
(* string is accepted by the decoder and decodes to the character it was   *)
(* written for.                                                            *)
(***************************************************************************)
C19_EscapesRoundTrip ==
    (WasEncoded /\ Decoded /\ datum.kind \in {"char", "str"}
        /\ \E i \in 1..Len(wire) : wire[i] = 92) =>
            result = ResultOk(datum)

\* what the claim lets an escape be: the text after the backslash gives a
\* character and the text after it, an error, or (after '{') is left open
Escape(text) ==
    IF text = <<>> THEN [tag |-> "Eof", c |-> 0, rest |-> <<>>]
    ELSE IF Head(text) \in {39, 34, 92} THEN [tag |-> "ok", c |-> Head(text), rest |-> Tail(text)]
    ELSE IF Head(text) = 110 THEN [tag |-> "ok", c |-> 10, rest |-> Tail(text)]
    ELSE IF Head(text) = 123 THEN [tag |-> "open", c |-> 0, rest |-> <<>>]
    ELSE [tag |-> "InvalidEscape", c |-> Head(text), rest |-> <<>>]

\* one character of a literal, escaped or not
Quoted(text) ==
    IF text = <<>> THEN [tag |-> "Eof", c |-> 0, rest |-> <<>>]
    ELSE IF Head(text) = 92 THEN Escape(Tail(text))
    ELSE [tag |-> "ok", c |-> Head(text), rest |-> Tail(text)]

\* what from_str is to return for a text that is all read
Complete(rest, v) ==
    IF rest = <<>> THEN ResultOk(v) ELSE ResultErr(Err("TrailingCharacters"))

\* a string literal after its opening quote: it ends at the first '"' that
\* is not escaped
RECURSIVE StrLiteral(_, _)
StrLiteral(text, string) ==
    LET one(q) ==
            IF q.tag = "ok" THEN StrLiteral(q.rest, Append(string, q.c))
            ELSE IF q.tag = "open" THEN [ok |-> FALSE, open |-> TRUE]
            ELSE ResultErr(Error(q.tag, <<>>, q.c, 0, 0))
    IN  IF text # <<>> /\ Head(text) = 34 THEN Complete(Tail(text), VStr(string))
        ELSE one(Quoted(text))

\* a character literal after its opening quote: one character, escaped or
\* not, and the closing quote
CharLiteral(text) ==
    LET one(q) ==
            IF q.tag = "open" THEN [ok |-> FALSE, open |-> TRUE]
            ELSE IF q.tag # "ok" THEN ResultErr(Error(q.tag, <<>>, q.c, 0, 0))
            ELSE IF q.rest = <<>> THEN ResultErr(Err("Eof"))
            ELSE IF Head(q.rest) # 39
            THEN ResultErr(Error("ExpectedChar", <<39>>, Head(q.rest), 0, 1 + Len(text) - Len(q.rest)))
            ELSE Complete(Tail(q.rest), VChar(q.c))
    IN  one(Quoted(text))

\* the literal given to from_str, and what the claim says of it
HandWritten == Decoded /\ datum = NoValue /\ typ \in {TChar, TStr}
Claimed == IF typ = TChar THEN CharLiteral(Tail(wire)) ELSE StrLiteral(Tail(wire), <<>>)

(***************************************************************************)
(* C20  After a backslash only ' " n \ and { are accepted: any other       *)
(* character c gives InvalidEscape(c) and the end of the input gives Eof;  *)
(* a string ends only at a '"' that is not escaped; a character literal    *)
(* holds exactly one character, escaped or not, and then its closing       *)
(* quote.                                                                  *)
(***************************************************************************)
C20_EscapesAndQuotes ==
    HandWritten =>
        /\ "open" \notin DOMAIN Claimed => result = Claimed
        /\ (~result.ok /\ result.e.kind = "InvalidEscape") =>
              result.e.found \notin {39, 34, 110, 92, 123}

\* "\q" read as a string: InvalidEscape('q')
C20_Witness ==
    /\ HandWritten
    /\ typ = TStr
    /\ wire = <<34, 92, 113, 34>>
    /\ result = ResultErr(Error("InvalidEscape", <<>>, 113, 0, 0))

(***************************************************************************)
(* Numeric escapes \{h} in char and str literals                           *)
(***************************************************************************)
\* digits the generated escapes are made of: 0 8 d f
HexChars == {48, 56, 100, 102}

\* d7ff e000 10ffff 110000 ffffffff 100000000, then 16 f's, 1 and 16 0's,
\* and 41 after 17 0's
HexLongs ==
    { <<100, 55, 102, 102>>, <<101, 48, 48, 48>>,
      <<49, 48, 102, 102, 102, 102>>, <<49, 49, 48, 48, 48, 48>>,
      <<102, 102, 102, 102, 102, 102, 102, 102>>,
      <<49, 48, 48, 48, 48, 48, 48, 48, 48>>,
      [i \in 1..16 |-> 102],
      [i \in 1..17 |-> IF i = 1 THEN 49 ELSE 48],
      [i \in 1..19 |-> IF i = 18 THEN 52 ELSE IF i = 19 THEN 49 ELSE 48] }

\* what follows the digits, before the closing quote: } nothing space-} g} F}
HexClosers == {<<125>>, <<>>, <<32, 125>>, <<103, 125>>, <<70, 125>>}

EsInit ==
    /\ typ \in {TChar, TStr}
    /\ datum = NoValue
    /\ pc = "text"
    /\ trailing = <<>>
    /\ \E h \in SeqsUpTo(HexChars, MaxHex) \cup HexLongs, closer \in HexClosers,
          quote \in {<<>>, <<IF typ = TChar THEN 39 ELSE 34>>} :
          wire = <<IF typ = TChar THEN 39 ELSE 34, 92, 123>> \o h \o closer \o quote
    /\ result = NoResult /\ serializer = Idle /\ deserializer = Idle
    /\ CpIdle /\ KcIdle /\ FiIdle

SpecEscape == EsInit /\ [][Decode]_vars

\* the digits h of the escape the text starts with, and what follows them
RECURSIVE HexRun(_)
HexRun(text) ==
    IF text # <<>> /\ IsHexDigit(Head(text)) THEN <<Head(text)>> \o HexRun(Tail(text))
    ELSE <<>>

EscapeDigits == HexRun(SubSeq(wire, 4, Len(wire)))
AfterDigits == SubSeq(wire, 4 + Len(EscapeDigits), Len(wire))

\* the number h, or 1114112 (0x110000) for every h above 0x10FFFF
RECURSIVE HexNumber(_, _)
HexNumber(h, acc) ==
    LET digit(c) == IF c <= 57 THEN c - 48 ELSE c - 87
        more(n) == IF n > 1114111 THEN 1114112 ELSE HexNumber(Tail(h), n)
    IN  IF h = <<>> THEN acc ELSE more((acc * 16) + digit(Head(h)))

\* C21: a numeric escape \{h} decodes to the scalar value h when h is a legal
\* scalar value and '}' follows the digits at once; when h is a surrogate or
\* above 0x10FFFF (which covers h past 32 and past 64 bits) the result is
\* NumberOverflow; and no escape is accepted unless '}' follows its digits
C21_NumericEscape ==
    pc = "done" /\ Len(wire) >= 3 /\ wire[2] = 92 /\ wire[3] = 123 =>
        LET u == HexNumber(EscapeDigits, 0)
            quote == wire[1]
            closed == AfterDigits # <<>> /\ Head(AfterDigits) = 125
        IN  /\ EscapeDigits # <<>> /\ IsScalar(u) /\ AfterDigits = <<125, quote>> =>
                /\ result.ok
                /\ result.v = IF typ = TChar THEN VChar(u) ELSE VStr(<<u>>)
            /\ EscapeDigits # <<>> /\ ~IsScalar(u) =>
                ~result.ok /\ result.e.kind = "NumberOverflow"
            /\ result.ok => closed
            /\ IsScalar(u) /\ ~closed /\ AfterDigits # <<>> =>
                /\ ~result.ok /\ result.e.kind = "ExpectedChar"
                /\ result.e.one_of = <<125>> /\ result.e.found = Head(AfterDigits)

\* '\{10ffff}' was decoded as the last scalar value
C21_Witness ==
    /\ pc = "done" /\ typ = TChar
    /\ wire = <<39, 92, 123, 49, 48, 102, 102, 102, 102, 125, 39>>
    /\ result = ResultOk(VChar(1114111))

\* "\{10000000000000000}", one digit past the 64-bit accumulator
C21_WitnessOverflow ==
    /\ pc = "done" /\ typ = TStr
    /\ wire = <<34, 92, 123>> \o [i \in 1..17 |-> IF i = 1 THEN 49 ELSE 48] \o <<125, 34>>
    /\ ~result.ok /\ result.e.kind = "NumberOverflow"

(***************************************************************************)
(* Composites whose delimiters were damaged                                *)
(***************************************************************************)
\* the composite types whose encodings hold '(' ')' '[' ']' as delimiters
\* only: no character and no string in them
DelimTypes ==
    {TOption(TInt("i8")), TOption(TOption(TBool)), TOption(TSeq(TInt("u8"))), TOption(TUnit),
     TSeq(TInt("u8")), TSeq(TSeq(TInt("u8"))), TSeq(TUnit), TSeq(TColor),
     TTuple(<<TInt("u8"), TInt("u8"), TInt("u8")>>),
     TMap(TInt("u8"), TOption(TInt("i8"))), TMap(TBool, TPoint), TMap(TSeq(TInt("u8")), TUnit),
     TPoint, TEmpty, TPixel, TColor}

Delimiters == {40, 41, 91, 93}

\* a text as it was encoded, cut short, with one delimiter taken out, or with
\* one delimiter replaced by another
Damages(text) ==
    {SubSeq(text, 1, n) : n \in 0..Len(text)}
        \cup {SubSeq(text, 1, i - 1) \o SubSeq(text, i + 1, Len(text)) :
                i \in {j \in 1..Len(text) : text[j] \in Delimiters}}
        \cup {[text EXCEPT ![i] = c] :
                i \in {j \in 1..Len(text) : text[j] \in Delimiters}, c \in Delimiters}

DlInit ==
    /\ typ \in DelimTypes
    /\ datum \in ValuesOf(typ, 0)
    /\ pc = "text"
    /\ trailing = <<>>
    /\ wire \in Damages(to_string(datum))
    /\ result = NoResult /\ serializer = Idle /\ deserializer = Idle
    /\ CpIdle /\ KcIdle /\ FiIdle

SpecDelims == DlInit /\ [][Decode]_vars

\* every closer closes the last opener still open, of its own kind, and no
\* opener is left open
RECURSIVE Matched(_, _)
Matched(text, open) ==
    LET closes(c) == Len(open) > 0 /\ open[Len(open)] = (IF c = 41 THEN 40 ELSE 91)
    IN  IF text = <<>> THEN open = <<>>
        ELSE IF Head(text) \in {40, 91} THEN Matched(Tail(text), Append(open, Head(text)))
        ELSE IF Head(text) \in {41, 93}
             THEN closes(Head(text)) /\ Matched(Tail(text), SubSeq(open, 1, Len(open) - 1))
        ELSE Matched(Tail(text), open)

RECURSIVE Opened(_, _)
\* how many composites of the value v are written in '(' ')' (opener 40):
\* unit, option, map, struct, variant; or in '[' ']' (opener 91): sequence,
\* tuple, map entry
Opened(v, opener) ==
    LET RECURSIVE inside(_)
        inside(items) ==
            IF items = <<>> THEN 0 ELSE Opened(Head(items), opener) + inside(Tail(items))
        own ==
            IF opener = 40
            THEN v.kind \in {"unit", "none", "some", "map", "struct", "variant"}
            ELSE v.kind \in {"seq", "tuple", "entry"}
    IN  (IF own THEN 1 ELSE 0) + inside(v.items)

Count(text, c) == Cardinality({i \in 1..Len(text) : text[i] = c})

\* C22: a composite is decoded only from a text in which each opener is closed
\* by the closer of its own kind: one '[' ']' pair for each sequence, tuple and
\* map entry of the value returned, one '(' ')' pair for each unit, option,
\* map, struct and variant; a text cut before a closer, or with a delimiter
\* missing or of the other kind, is an error
C22_MatchingDelimiters ==
    pc = "done" /\ typ \in DelimTypes =>
        /\ result.ok =>
              /\ Matched(wire, <<>>)
              /\ Count(wire, 91) = Opened(result.v, 91)
              /\ Count(wire, 40) = Opened(result.v, 40)
        /\ wire # to_string(datum) => ~result.ok

\* "[3 0)" read as a Vec<u8>: the elements end at ')' and ']' is missing
C22_Witness ==
    /\ pc = "done" /\ typ = TSeq(TInt("u8"))
    /\ wire = <<91, 51, 32, 48, 41>>
    /\ ~result.ok /\ result.e.kind = "ExpectedChar"
    /\ result.e.one_of = <<93>> /\ result.e.found = 41

(***************************************************************************)
(* Deserializer::parse_ident on short texts                                *)
(***************************************************************************)
\* space, line feed, '-', a, B, 7, sharp s, ')'
IdentTextChars == {32, 10, 45, 97, 66, 55, 223, 41}

\* every short text of IdentTextChars, and "  dark-blue)", "--x--y", "a-"
IdentTexts ==
    {Utf8Str(t) : t \in SeqsUpTo(IdentTextChars, MaxText)}
        \cup {<<32, 32, 100, 97, 114, 107, 45, 98, 108, 117, 101, 41>>,
              <<45, 45, 120, 45, 45, 121>>, <<97, 45>>}

IdInit ==
    /\ wire \in IdentTexts
    /\ \E reader \in {ReaderFromBytes, ReaderFromIo} :
          deserializer = Deserializer_new(reader, wire)
    /\ result = NoResult
    /\ pc = "ident"
    /\ typ = Idle /\ datum = Idle /\ trailing = Idle /\ serializer = Idle
    /\ CpIdle /\ KcIdle /\ FiIdle

\* let ident = deserializer.parse_ident();
ParseIdent ==
    /\ pc = "ident"
    /\ LET call(r) ==
               /\ deserializer' = r.d
               /\ result' = [ok |-> r.ok, v |-> r.v, e |-> r.e]
       IN  call(parse_ident(deserializer))
    /\ pc' = "parsed"
    /\ UNCHANGED <<typ, datum, wire, trailing, serializer, cp_vars, kc_vars, fi_vars>>

SpecIdent == IdInit /\ [][ParseIdent]_vars

\* the longest run of characters of a text that satisfy the closure p
RECURSIVE Run(_, _)
Run(cs, p) ==
    IF cs # <<>> /\ Closure(p, Head(cs)) THEN <<Head(cs)>> \o Run(Tail(cs), p) ELSE <<>>

\* the whitespace a text starts with, and the identifier characters after it
Blanks == Run(Chars(wire), "is_whitespace")
IdentRun == Run(SubSeq(Chars(wire), Len(Blanks) + 1, Len(Chars(wire))), "is_ident")

\* the decoder-side case transform of characters
RECURSIVE PushAll(_, _)
PushAll(k, cs) ==
    IF cs = <<>> THEN k.buffer ELSE PushAll(FromKebabCase_push(k, Head(cs)), Tail(cs))

Converted == PushAll(FromKebabCase_new, IdentRun)

\* C23 as stated: the whitespace is skipped, the longest run of identifier
\* characters is consumed and returned converted; when the converted run is
\* empty the result is ExpectedIdentifier and only the whitespace was consumed
C23_OnlyWhitespaceConsumed ==
    pc = "parsed" =>
        IF Converted # <<>>
        THEN result.ok /\ result.v = Converted /\ Consumed = Blanks \o IdentRun
        ELSE ~result.ok /\ result.e.kind = "ExpectedIdentifier" /\ Consumed = Blanks

\* C23: the whitespace is skipped and the longest run of identifier characters
\* is consumed, whatever the result; the run is returned converted, and when
\* the converted run is empty (no character, or '-' only) the result is
\* ExpectedIdentifier
C23_ParseIdent ==
    pc = "parsed" =>
        /\ Consumed = Blanks \o IdentRun
        /\ IF Converted # <<>>
           THEN result.ok /\ result.v = Converted
           ELSE /\ ~result.ok /\ result.e.kind = "ExpectedIdentifier"
                /\ \A i \in 1..Len(IdentRun) : IdentRun[i] = HYPHEN

\* " -)" : ExpectedIdentifier after the space and the '-' were consumed
C23_Witness ==
    /\ pc = "parsed" /\ wire = <<32, 45, 41>>
    /\ ~result.ok /\ result.e.kind = "ExpectedIdentifier"
    /\ Consumed = <<32, 45>>

\* "  dark-blue)" gives "DarkBlue" and stops at ')'
C23_WitnessName ==
    /\ pc = "parsed" /\ wire = <<32, 32, 100, 97, 114, 107, 45, 98, 108, 117, 101, 41>>
    /\ result.ok /\ result.v = <<68, 97, 114, 107, 66, 108, 117, 101>>
    /\ peek_char(deserializer) = Some(41)

(***************************************************************************)
(* try_next_code_point on a source whose reads may fail                    *)
(***************************************************************************)
\* the items the source gives: bytes of every class, and a failed read
TryItems == {65, 128, 191, 195, 224, 237, 240, 244, 248, IoFailure}

TcInit ==
    /\ original = Raw
    /\ iter \in SeqsUpTo(TryItems, MaxBytes)
    /\ chars = <<>>
    /\ last = [tag |-> "start", c |-> 0, from |-> <<>>]
    /\ KcIdle /\ StIdle /\ FiIdle

\* One turn of `while let Some(c) = try_next_code_point(&mut bytes, err)?`
\* with the loop body `chars.push(c)`
TryNextCodePoint ==
    /\ last.tag \in {"start", "some"}
    /\ LET call(r) ==
               /\ iter' = r.rest
               /\ last' = [tag |-> r.tag, c |-> r.c, from |-> iter]
               /\ chars' = IF r.tag = "some" THEN Append(chars, r.c) ELSE chars
       IN  call(try_next_code_point(iter))
    /\ UNCHANGED <<original, kc_vars, st_vars, fi_vars>>

SpecTryCodepoint == TcInit /\ [][TryNextCodePoint]_vars

\* the reads that fail among the items the call started from
Failing == {i \in 1..Len(last.from) : last.from[i] = IoFailure}

FirstFailing == CHOOSE i \in Failing : \A j \in Failing : i <= j

\* the n-th read is made: it is the lead byte's, or the lead byte announces
\* it and every continuation byte before it is one
ReadIsMade(bs, n) ==
    \/ n = 1
    \/ /\ n <= 1 + Announced(bs[1])
       /\ \A i \in 2..(n - 1) : IsContinuation(bs[i])

\* C24: on a source whose reads all succeed try_next_code_point returns what
\* next_code_point returns and leaves the same bytes unread; when a read it
\* makes fails it returns that read's error, and up to a read that fails and
\* that it does not make it behaves as next_code_point on the bytes before it
C24_SameUpToFallibility ==
    last.tag # "start" =>
        LET bs == last.from
            same(q, unread) ==
                last.tag = q.tag /\ last.c = q.c /\ iter = q.rest \o unread
        IN  IF Failing = {} THEN same(next_code_point(bs), <<>>)
            ELSE IF ReadIsMade(bs, FirstFailing)
                 THEN last.tag = "io" /\ iter = Drop(bs, FirstFailing)
            ELSE same(next_code_point(SubSeq(bs, 1, FirstFailing - 1)),
                      Drop(bs, FirstFailing - 1))

\* E0 BF and then a failed read: the error is the read's
C24_Witness ==
    /\ last.from = <<224, 191, IoFailure>>
    /\ last.tag = "io"
    /\ iter = <<>>

\* F0 BF BF BF read from a source that does not fail
C24_WitnessSame ==
    /\ last.from = <<240, 191, 191, 191>>
    /\ last.tag = "some" /\ last.c = 262143

\* C25: a scalar value is returned only when the bytes the call consumed are
\* the UTF-8 encoding of that value: no surrogate, nothing above 0x10FFFF and
\* no over-long encoding is accepted
C25_ExactEncoding ==
    last.tag = "some" =>
        /\ IsScalar(last.c)
        /\ last.from = Utf8(last.c) \o iter

(***************************************************************************)
(* A source that fails: bytes that are no UTF-8, and reads that fail       *)
(***************************************************************************)
\* '5', '+', space, the byte FF, and a failed read
FailingItems == {53, 43, 32, 255, IoFailure}

\* what the source gives where the failure is: the byte FF, a failed read, a
\* two-byte lead at the end of the input
Failures == {<<255>>, <<IoFailure>>, <<195>>}

\* the types whose encodings the failure is put in and after
FailingTypes ==
    ScalarTypes \cup {TOption(TInt("i8")), TSeq(TInt("u8")), TSeq(TStr), TTuple(<<TBool, TChar>>),
                      TMap(TChar, TBool), TPoint, TEmpty, TPixel, TColor}

LaInit ==
    \/ /\ wire \in SeqsUpTo(FailingItems, MaxText)
       /\ \E reader \in {ReaderFromBytes, ReaderFromIo} :
             /\ reader = ReaderFromBytes => \A i \in 1..Len(wire) : wire[i] # IoFailure
             /\ deserializer = Deserializer_new(reader, wire)
       /\ result = [op |-> "new", ok |-> TRUE, e |-> Err(""), refused |-> FALSE,
                    row |-> 0, col |-> 0]
       /\ pc = "reading"
       /\ typ = Idle /\ datum = Idle /\ trailing = Idle /\ serializer = Idle
       /\ CpIdle /\ KcIdle /\ FiIdle
    \/ /\ typ \in FailingTypes
       /\ datum \in ValuesOf(typ, 1)
       /\ pc = "text"
       /\ trailing \in {failure \o after : failure \in Failures, after \in {<<>>, <<32>>}}
       /\ \E n \in 0..Len(to_string(datum)) :
             wire = SubSeq(to_string(datum), 1, n) \o trailing
       /\ result = NoResult /\ serializer = Idle /\ deserializer = Idle
       /\ CpIdle /\ KcIdle /\ FiIdle

\* let result = from_reader::<_, T>(source);
DecodeReader ==
    /\ pc = "text"
    /\ LET returned(r) == IF r.ok THEN ResultOk(r.v) ELSE ResultErr(r.e)
       IN  result' = returned(from_reader(typ, wire))
    /\ pc' = "done"
    /\ UNCHANGED <<typ, datum, wire, trailing, serializer, deserializer, cp_vars, kc_vars, fi_vars>>

LaNext == RdNext \/ DecodeReader

SpecLookahead == LaInit /\ [][LaNext]_vars

\* the methods that consume characters whenever they return Ok
Consumes == {"next_char", "expects_either", "expects", "expects_imm", "parse_u64", "parse_i64"}

\* the error a source gives at a failure
SourceError(failure) == IF failure = <<IoFailure>> THEN "Io" ELSE "InvalidUtf8"

\* once the look-ahead holds an error or the end of the input, a method leaves
\* the Deserializer as it is, source included, and a consume returns that
\* error, Eof at the end of the input; next_if returns the error too
LookaheadKept ==
    pc = "reading" /\ deserializer.peeked.kind # "Some" =>
        /\ deserializer' = deserializer
        /\ result'.op \in Consumes \cup {"next_if"} =>
              IF deserializer.peeked.kind = "Err"
              THEN ~result'.ok /\ result'.e = Err(deserializer.peeked.err)
              ELSE IF result'.op = "next_if" THEN result'.ok
              ELSE ~result'.ok /\ result'.e = Err("Eof")

\* from_reader on a source that fails never returns Ok; after the digits of
\* a whole unsigned integer it returns the source's error
NeverOk ==
    pc = "done" =>
        /\ ~result.ok
        /\ typ.ty \in UnsignedTypes /\ wire = to_string(datum) \o trailing =>
              result.e = Err(SourceError(SubSeq(trailing, 1, 1)))

\* C26: once the look-ahead holds an error of the source, or the end of the
\* input, the source is not read again and every consume returns that error
\* (Eof at the end of the input); from_reader on a source that fails does not
\* return Ok, also when the failure comes right after a complete value
C26_SourceErrorKept == [][LookaheadKept]_vars /\ []NeverOk

\* the digits "3" and then the byte FF, read as a u8: InvalidUtf8
C26_Witness ==
    /\ pc = "done" /\ typ = TInt("u8")
    /\ wire = <<51, 255>>
    /\ result = ResultErr(Err("InvalidUtf8"))

\* "5" was consumed before a failed read, and next_char then returned Io
C26_WitnessConsume ==
    /\ pc = "reading" /\ wire = <<53, IoFailure, 53>>
    /\ deserializer.peeked.kind = "Err" /\ deserializer.input = <<53>>
    /\ result.op = "next_char" /\ ~result.ok /\ result.e = Err("Io")

(***************************************************************************)
(* The calls a Serialize implementation makes on the Serializer, one at a  *)
(* time: pc is the stack of the containers that are open                   *)
(***************************************************************************)
\* the values given as an element, a field, a key or a value: (unit),
\* [true], (some [(unit) (none)])
ElementValues == {VUnit, VSeq(<<VBool(TRUE)>>), VSome(VTuple(<<VUnit, VNone>>))}

ContainerKinds == {"seq", "tuple", "map", "struct"}

\* to_writer_pretty and to_writer before value.serialize(&mut serializer)
InInit ==
    /\ \E indent \in {Some(0), None} :
          /\ serializer = Serializer_new(indent)
          /\ result = [indent |-> indent]
    /\ pc = <<>>
    /\ typ = Idle /\ datum = Idle /\ wire = Idle /\ trailing = Idle
    /\ deserializer = Idle
    /\ CpIdle /\ KcIdle /\ FiIdle

Top == pc[Len(pc)]

in_vars == <<typ, datum, wire, trailing, result, deserializer, cp_vars, kc_vars, fi_vars>>

\* serialize_seq, serialize_tuple, serialize_map, serialize_struct: for the
\* top-level value, or for an element of a tuple or a field of a struct,
\* after the ensure_spacing of serialize_element / serialize_field
Begin ==
    /\ Len(pc) < MaxDepth
    /\ Len(serializer.output) < MaxWrites
    /\ IF pc = <<>> THEN serializer.output = <<>> ELSE Top \in {"tuple", "struct"}
    /\ \E kind \in ContainerKinds :
          LET opened(s) ==
                  CASE kind \in {"seq", "tuple"} -> serialize_seq(s)
                    [] kind = "map" -> serialize_map(s)
                    [] kind = "struct" -> serialize_struct(s, <<80, 111, 105, 110, 116>>)
          IN  /\ serializer' =
                    opened(IF pc = <<>> THEN serializer ELSE ensure_spacing(serializer))
              /\ pc' = Append(pc, kind)
    /\ UNCHANGED in_vars

\* SerializeSeq::serialize_element, SerializeTuple::serialize_element,
\* SerializeStruct::serialize_field with a whole value
Element ==
    /\ pc # <<>> /\ Top \in {"seq", "tuple", "struct"}
    /\ Len(serializer.output) < MaxWrites
    /\ \E v \in ElementValues :
          serializer' = IF Top = "seq" THEN SerializeSeq_serialize_element(serializer, v)
                        ELSE SerializeTuple_serialize_element(serializer, v)
    /\ UNCHANGED <<pc, in_vars>>

\* SerializeMap::serialize_key
Key ==
    /\ pc # <<>> /\ Top = "map"
    /\ Len(serializer.output) < MaxWrites
    /\ \E k \in ElementValues : serializer' = SerializeMap_serialize_key(serializer, k)
    /\ pc' = [pc EXCEPT ![Len(pc)] = "entry"]
    /\ UNCHANGED in_vars

\* SerializeMap::serialize_value
Value ==
    /\ pc # <<>> /\ Top = "entry"
    /\ \E v \in ElementValues : serializer' = SerializeMap_serialize_value(serializer, v)
    /\ pc' = [pc EXCEPT ![Len(pc)] = "map"]
    /\ UNCHANGED in_vars

\* SerializeSeq::end, SerializeTuple::end, SerializeMap::end,
\* SerializeStruct::end; the container was an element of a tuple or a field
\* of a struct when another one is open: self.sep = Sep::LineOrSpace follows
End ==
    /\ pc # <<>> /\ Top # "entry"
    /\ LET ended(s) == IF Len(pc) > 1 THEN [s EXCEPT !.sep = Sep_LineOrSpace] ELSE s
       IN  serializer' = ended(IF Top \in {"seq", "tuple"} THEN SerializeSeq_end(serializer)
                                ELSE SerializeMap_end(serializer))
    /\ pc' = SubSeq(pc, 1, Len(pc) - 1)
    /\ UNCHANGED in_vars

InNext == Begin \/ Element \/ Key \/ Value \/ End

SpecIndent == InInit /\ [][InNext]_vars

\* C27: in pretty mode the depth is the number of containers that are open:
\* one more after each opening, one less after each closing and never below
\* zero, the same after an element, a key or a value as before it, and zero
\* when the top-level value is encoded; in compact mode there is no depth, and
\* the mode never changes
C27_IndentBalanced ==
    serializer.indent = IF result.indent = None THEN None ELSE Some(Len(pc))

\* pretty mode, "(point" and "[" open: depth 2 after an element that was
\* encoded in compact mode
C27_Witness ==
    /\ pc = <<"struct", "seq">>
    /\ result.indent = Some(0)
    /\ serializer.indent = Some(2)
    /\ serializer.sep = Sep_LineOrSpace
    /\ Len(serializer.output) > 4

\* pretty mode, the top-level map is closed: depth 0
C27_WitnessClosed ==
    /\ pc = <<>> /\ result.indent = Some(0)
    /\ serializer.indent = Some(0)
    /\ Len(serializer.output) > 4

(***************************************************************************)
(* A value written in both layouts and read back                           *)
(***************************************************************************)
LyInit ==
    /\ typ \in Types
    /\ datum \in ValuesOf(typ, 0)
    /\ pc = "value" /\ wire = <<>> /\ trailing = <<>>
    /\ result = NoResult /\ serializer = Idle /\ deserializer = Idle
    /\ CpIdle /\ KcIdle /\ FiIdle

\* to_writer(&value, &mut wire).unwrap();
WriteCompact ==
    /\ pc = "value"
    /\ wire' = to_writer(datum, Unfailing).output
    /\ pc' = "text"
    /\ UNCHANGED <<typ, datum, trailing, result, serializer, deserializer, cp_vars, kc_vars, fi_vars>>

\* to_writer_pretty(&value, &mut wire).unwrap();
WritePretty ==
    /\ pc = "value"
    /\ wire' = to_writer_pretty(datum, Unfailing).output
    /\ pc' = "text"
    /\ UNCHANGED <<typ, datum, trailing, result, serializer, deserializer, cp_vars, kc_vars, fi_vars>>

LyNext == WriteCompact \/ WritePretty \/ Decode

SpecLayout == LyInit /\ [][LyNext]_vars

Least(S) == CHOOSE i \in S : \A j \in S : i <= j

\* the quote at j, inside the literal opened at i, follows an odd number of
\* backslashes
EscapedAt(text, i, j) ==
    Cardinality({n \in 1..(j - i - 1) : \A m \in 1..n : text[j - m] = 92}) % 2 = 1

\* where the token that starts at i ends: a bracket is a token, a char or
\* string literal runs from its opening quote to the next such quote that is
\* not escaped, any other token runs up to whitespace, a bracket or the end
TokenEnd(text, i) ==
    IF text[i] \in {40, 41, 91, 93} THEN i
    ELSE IF text[i] \in {34, 39}
    THEN Least({j \in (i + 1)..Len(text) : text[j] = text[i] /\ ~EscapedAt(text, i, j)}
                  \cup {Len(text)})
    ELSE Least({j \in i..Len(text) :
                   j = Len(text) \/ text[j + 1] \in {32, 10, 40, 41, 91, 93}})

\* the tokens of a text from its i-th character on, after the tokens acc
RECURSIVE TokensFrom(_, _, _)
TokensFrom(text, i, acc) ==
    LET token(from) ==
            IF from > Len(text) THEN acc
            ELSE TokensFrom(text, TokenEnd(text, from) + 1,
                            Append(acc, SubSeq(text, from, TokenEnd(text, from))))
    IN  token(Least({j \in i..Len(text) : text[j] \notin {32, 10}} \cup {Len(text) + 1}))

Tokens(text) == TokensFrom(text, 1, <<>>)

\* the text of to_writer_pretty is the text of to_writer with whitespace
\* added between tokens, and a final line feed
SameTokens ==
    LET compact == to_writer(datum, Unfailing).output
        pretty == to_writer_pretty(datum, Unfailing).output
    IN  /\ Tokens(pretty) = Tokens(compact)
        /\ Len(pretty) >= Len(compact) + 1
        /\ pretty[Len(pretty)] = 10

LayoutOnly == pc # "value" => SameTokens

\* C28: the text of to_writer_pretty is the text of to_writer with whitespace
\* added between tokens and a final line feed, and each of the two texts is
\* decoded as the value that was written
C28_LayoutIndependence ==
    /\ pc # "value" => SameTokens
    /\ pc = "done" => result = ResultOk(datum)

(***************************************************************************)
(* fichar: the time-span store of an Instance (state/instance.rs)          *)
(***************************************************************************)

\* the ids of the persons, and the instants of the calls on each: every
\* instant for the first person, the two extreme ones for the second, who
\* records spans without entering and leaving
PersonIds == {1, 2}
Instants(person) == IF person = 1 THEN 0..MaxInstant ELSE {0, MaxInstant}
Entering == {1}

\* Span { enter, leave }
Span(enter, leave) == [enter |-> enter, leave |-> leave]

\* Person::default(): no span, not entered
Person_default == [spans |-> <<>>, entered |-> None]

\* the Person of an id, a default one for an id the map does not hold
PersonOf(ps, person) ==
    IF person \in DOMAIN ps THEN ps[person] ELSE Person_default

\* persons.entry(person).or_insert(Person::default())
or_insert(ps, person) ==
    [p \in DOMAIN ps \cup {person} |-> PersonOf(ps, p)]

\* the two closures given to partition_point: |s| s.leave <= t, |s| s.enter < t
SpanPred(pred, s, t) ==
    IF pred = "leave <=" THEN s.leave <= t ELSE s.enter < t

\* slice::partition_point: the number of leading elements the predicate
\* holds of when the slice is partitioned by it, any index otherwise
partition_point(spans, pred, t) ==
    LET holds == {i \in 1..Len(spans) : SpanPred(pred, spans[i], t)}
    IN  IF \A i \in holds : \A j \in 1..i : j \in holds
        THEN {Cardinality(holds)}
        ELSE 0..Len(spans)

\* spans.drain(min..max).collect(), and the spans the Vec keeps
Drained(spans, min, max) == SubSeq(spans, min + 1, max)
Kept(spans, min, max) ==
    SubSeq(spans, 1, min) \o SubSeq(spans, max + 1, Len(spans))

\* spans.insert(min, span)
Insert(spans, min, span) ==
    SubSeq(spans, 1, min) \o <<span>> \o SubSeq(spans, min + 1, Len(spans))

\* what a call returns: Ok with the removed spans, an error with its span,
\* the previous entered instant of enter, or a panic of drain
CallResult(tag, removed, span, previous) ==
    [tag |-> tag, removed |-> removed, span |-> span, previous |-> previous]

\* Instance::add_span with every span whose leave is < enter, instead of
\* <= enter, kept before the new span
Instance_add_span_TouchingRemoved(ps, person, enter, leave) ==
    IF enter >= leave
    THEN {[persons |-> ps,
           ret |-> CallResult("LeaveEarlierThanEnter", <<>>, Some(Span(enter, leave)), None)]}
    ELSE LET held == or_insert(ps, person)
             spans == held[person].spans
             drain(min, max) ==
                IF min > max
                THEN [persons |-> held, ret |-> CallResult("panic", <<>>, None, None)]
                ELSE [persons |-> [held EXCEPT ![person].spans =
                                      Insert(Kept(spans, min, max), min, Span(enter, leave))],
                      ret |-> CallResult("Ok", Drained(spans, min, max), None, None)]
         IN  {drain(min, max) :
                 min \in partition_point(spans, "leave <=", enter - 1),
                 max \in partition_point(spans, "enter <", leave)}

\* Instance::add_span: the outcomes of the call, each with the map it leaves
Instance_add_span(ps, person, enter, leave) ==
    IF enter >= leave
    THEN {[persons |-> ps,
           ret |-> CallResult("LeaveEarlierThanEnter", <<>>, Some(Span(enter, leave)), None)]}
    ELSE LET held == or_insert(ps, person)
             spans == held[person].spans
             drain(min, max) ==
                IF min > max
                THEN [persons |-> held, ret |-> CallResult("panic", <<>>, None, None)]
                ELSE [persons |-> [held EXCEPT ![person].spans =
                                      Insert(Kept(spans, min, max), min, Span(enter, leave))],
                      ret |-> CallResult("Ok", Drained(spans, min, max), None, None)]
         IN  {drain(min, max) :
                 min \in partition_point(spans, "leave <=", enter),
                 max \in partition_point(spans, "enter <", leave)}

\* Instance::enter: entered.replace(enter)
Instance_enter(ps, person, enter) ==
    LET held == or_insert(ps, person)
    IN  {[persons |-> [held EXCEPT ![person].entered = Some(enter)],
          ret |-> CallResult("Ok", <<>>, None, held[person].entered)]}

\* Instance::leave: entered.take(), then add_span(person, enter, leave)
Instance_leave(ps, person, leave) ==
    IF person \notin DOMAIN ps \/ ps[person].entered = None
    THEN {[persons |-> ps, ret |-> CallResult("NotEntered", <<>>, None, None)]}
    ELSE LET enter == ps[person].entered[1]
             taken == [ps EXCEPT ![person].entered = None]
         IN  {[persons |-> added.persons,
               ret |-> IF added.ret.tag = "Ok"
                       THEN CallResult("Ok", added.ret.removed, Some(Span(enter, leave)), None)
                       ELSE added.ret] :
                 added \in Instance_add_span(taken, person, enter, leave)}

\* Instance::clear
Instance_clear(ps, person, start, end) ==
    IF person \notin DOMAIN ps
    THEN {[persons |-> ps, ret |-> CallResult("Ok", <<>>, None, None)]}
    ELSE LET spans == ps[person].spans
             drain(min, max) ==
                IF min > max
                THEN [persons |-> ps, ret |-> CallResult("panic", <<>>, None, None)]
                ELSE [persons |-> [ps EXCEPT ![person].spans = Kept(spans, min, max)],
                      ret |-> CallResult("Ok", Drained(spans, min, max), None, None)]
         IN  {drain(min, max) :
                 min \in partition_point(spans, "leave <=", start),
                 max \in partition_point(spans, "enter <", end)}

\* the call made, its arguments, the Person before it and what it returned
Called(op, person, enter, leave, ps, ret) ==
    [op |-> op, person |-> person, enter |-> enter, leave |-> leave,
     before |-> PersonOf(ps, person), ret |-> ret]

\* Instance::new: no person
FiInit ==
    /\ persons = <<>>
    /\ called = Called("new", 0, 0, 0, <<>>, CallResult("Ok", <<>>, None, None))
    /\ CpIdle /\ KcIdle /\ StIdle

\* Command::Span: add_span(person, enter, leave)
AddSpan ==
    /\ \E person \in PersonIds : \E enter, leave \in Instants(person) :
       \E out \in Instance_add_span(persons, person, enter, leave) :
          /\ persons' = out.persons
          /\ called' = Called("add_span", person, enter, leave, persons, out.ret)
    /\ UNCHANGED <<cp_vars, kc_vars, st_vars>>

\* Command::Enter: enter(person, instant)
Enter ==
    /\ \E person \in Entering : \E enter \in Instants(person) :
       \E out \in Instance_enter(persons, person, enter) :
          /\ persons' = out.persons
          /\ called' = Called("enter", person, enter, 0, persons, out.ret)
    /\ UNCHANGED <<cp_vars, kc_vars, st_vars>>

\* Command::Leave: leave(person, instant)
Leave ==
    /\ \E person \in Entering : \E leave \in Instants(person) :
       \E out \in Instance_leave(persons, person, leave) :
          /\ persons' = out.persons
          /\ called' = Called("leave", person, 0, leave, persons, out.ret)
    /\ UNCHANGED <<cp_vars, kc_vars, st_vars>>

\* Command::Clear: clear(person, start, end)
Clear ==
    /\ \E person \in PersonIds : \E start, end \in Instants(person) :
       \E out \in Instance_clear(persons, person, start, end) :
          /\ persons' = out.persons
          /\ called' = Called("clear", person, start, end, persons, out.ret)
    /\ UNCHANGED <<cp_vars, kc_vars, st_vars>>

FiNext == AddSpan \/ Enter \/ Leave \/ Clear

SpecInstance == FiInit /\ [][FiNext]_vars

\* every span has enter < leave, and each span's leave is <= the next's enter
StoreOk(spans) ==
    /\ \A i \in 1..Len(spans) : spans[i].enter < spans[i].leave
    /\ \A i \in 1..Len(spans) - 1 :
          /\ spans[i].enter < spans[i + 1].enter
          /\ spans[i].leave <= spans[i + 1].enter

\* the span shares an instant with [enter, leave)
Overlaps(s, enter, leave) == s.enter < leave /\ enter < s.leave

\* the spans of a Vec, as a set
SpanSet(spans) == {spans[i] : i \in 1..Len(spans)}

\* C29: after any sequence of add_span, enter, leave and clear calls, every
\* stored span of every person has enter < leave, the spans are sorted by
\* enter and pairwise non-overlapping; a successful add_span(enter, leave)
\* returns, and removes, exactly the stored spans that overlapped
\* [enter, leave), and stores the new span.
C29_SpanStore ==
    /\ \A p \in DOMAIN persons : StoreOk(persons[p].spans)
    /\ called.op = "add_span" /\ called.ret.tag = "Ok" =>
          LET old == called.before.spans
              now == persons[called.person].spans
          IN  /\ called.ret.removed =
                    SelectSeq(old, LAMBDA s : Overlaps(s, called.enter, called.leave))
              /\ SpanSet(now) =
                    (SpanSet(old) \ SpanSet(called.ret.removed))
                       \cup {Span(called.enter, called.leave)}

\* an add_span that removed two stored spans and kept one that only touches
\* the new span
C29_Witness ==
    /\ called.op = "add_span" /\ called.ret.tag = "Ok"
    /\ Len(called.ret.removed) = 2
    /\ \E s \in SpanSet(called.before.spans) :
          /\ s.leave = called.enter \/ s.enter = called.leave
          /\ s \in SpanSet(persons[called.person].spans)

\* a clear that removed a span and kept another
C29_WitnessClear ==
    /\ called.op = "clear" /\ called.ret.tag = "Ok"
    /\ Len(called.ret.removed) = 1
    /\ Len(persons[called.person].spans) = 1

\* C30: a leave that returns NotEntered or LeaveEarlierThanEnter leaves the
\* person's spans and pending entered instant as they were; a successful
\* leave clears the pending entered instant and stores [entered, leave).
C30_FailedLeaveChangesNothing ==
    called.op = "leave" =>
       IF called.ret.tag \in {"NotEntered", "LeaveEarlierThanEnter"}
       THEN PersonOf(persons, called.person) = called.before
       ELSE called.ret.tag = "Ok" =>
               /\ persons[called.person].entered = None
               /\ Span(called.before.entered[1], called.leave)
                     \in SpanSet(persons[called.person].spans)

\* the part of C30 the code keeps: NotEntered changes nothing, a failure
\* never changes the spans, and a success stores the span
C30_LeaveOtherwise ==
    called.op = "leave" =>
       /\ called.ret.tag = "NotEntered" =>
             PersonOf(persons, called.person) = called.before
       /\ called.ret.tag = "LeaveEarlierThanEnter" =>
             /\ persons[called.person].spans = called.before.spans
             /\ persons[called.person].entered = None
       /\ called.ret.tag = "Ok" =>
             /\ persons[called.person].entered = None
             /\ Span(called.before.entered[1], called.leave)
                   \in SpanSet(persons[called.person].spans)


====
